---------------------------- MODULE Spec2Model ----------------------------
(***************************************************************************)
(* A model of the EezyCourt text pipeline:                                 *)
(*   - DisputeOrchestrator.parseVerdictFromResult (the verdict             *)
(*     synthesizer), which turns a narrative into a VerdictResult;         *)
(*   - DisputeAnalysisMCPServer.analyzeLegalDocument (the document         *)
(*     feature extractor) and the server's documentsCache;                 *)
(*   - the HTTP server of src/src/server.ts: sessions, the case store,     *)
(*     uploads and the analyses in flight.                                 *)
(* Texts are TLA+ strings; a character is a string of length 1.  Each      *)
(* regular expression of the source is an operator that computes the       *)
(* match the JavaScript engine finds (leftmost, greedy/lazy as written).   *)
(* Case-insensitive matching is done on the lower-cased text; indices are  *)
(* shared with the original text, from which the results are cut.          *)
(* The alphabet of the texts is ASCII without the control characters       *)
(* U+0001 and U+0002, and the two bullet markers that are not ASCII: the   *)
(* bullet dot U+2022 and the check mark U+2713.  A string value keeps      *)
(* ASCII characters only (a string of the module holds no code point above *)
(* U+00FF, and a state holds none above U+007F), so the two markers are    *)
(* written with the two characters that the texts do not have:             *)
(*     BulletDot, the character U+0001, is the bullet dot U+2022,          *)
(*     CheckMark, the character U+0002, is the check mark U+2713.          *)
(* Like the two markers they are one UTF-16 unit long, are no whitespace,  *)
(* letter, digit or punctuation of any pattern, and toLowerCase() leaves   *)
(* them as they are.  Of \s and of the characters that trim() removes the  *)
(* texts have the six ASCII ones: space, \n, \t, \r, \f and \v (0x0B,      *)
(* here as the character itself).                                          *)
(***************************************************************************)
EXTENDS Naturals, Sequences, FiniteSets, TLC

VARIABLES
    pc,              \* where the running call stands: "idle"; "narrated" (the
                     \* workflow has resolved), "returned" (the verdict is
                     \* parsed); "called" (a tool request has arrived),
                     \* "answered" (its answer is built)
    narrative,       \* argument of the last parseVerdictFromResult call
    verdictResult,   \* what that call returned
    legacyResult,    \* what src/src/agents/DisputeOrchestrator.ts returns for it
    documentText,    \* arguments of the analyze_legal_document request
    documentName,
    toolResult,      \* the answer of analyzeLegalDocument
    documentsCache,  \* the server's Map from file path to extracted text
    parsing,         \* the extract_document_text requests that await pdfParse
    memo,            \* history: one earlier call, its input and its output
    authenticated,   \* the sessions that are logged in (req.isAuthenticated())
    now,             \* Date.now(), in milliseconds
    apiKey,          \* an API key is set in the environment of the process
    cases,           \* the Map `cases` of src/src/server.ts: caseId -> case data
    uploading,       \* the upload requests whose body multer is reading
    inflight,        \* the analyze requests that await their analysis
    reply            \* the last HTTP response sent

httpVars == <<authenticated, now, apiKey, cases, uploading, inflight, reply>>

vars == <<pc, narrative, verdictResult, legacyResult,
          documentText, documentName, toolResult, documentsCache, parsing, memo,
          httpVars>>

-----------------------------------------------------------------------------
(* Characters and strings                                                  *)

CharAt(s, i) == SubSeq(s, i, i)

CharsOf(s) == { SubSeq(s, i, i) : i \in 1..Len(s) }

\* \s, and what trim() removes: space, \n, \t, \r, \f, \v
WhiteSpace == {" ", "\n", "\t", "\r", "\f", ""}

LineBreaks == {"\n", "\r"}

Terminators == {".", "!", "?"}

ColonSpace == WhiteSpace \cup {":"}

\* the bullet dot U+2022, written as the character U+0001
BulletDot == ""

\* the check mark U+2713, written as the character U+0002
CheckMark == ""

\* [-<U+2022><U+2713>\d]: the hyphen, the bullet dot, the check mark and the
\* digits
BulletChars == {"-", BulletDot, CheckMark} \cup CharsOf("0123456789")

UpperChars == "ABCDEFGHIJKLMNOPQRSTUVWXYZ"

LowerChars == "abcdefghijklmnopqrstuvwxyz"

LowerTable ==
    [c \in CharsOf(UpperChars) |->
        LET i == CHOOSE j \in 1..Len(UpperChars) : CharAt(UpperChars, j) = c
        IN  CharAt(LowerChars, i)]

ToLowerChar(c) == IF c \in DOMAIN LowerTable THEN LowerTable[c] ELSE c

\* the recursions over a text halve it, so that their depth stays logarithmic
RECURSIVE ToLowerRange(_, _, _)
ToLowerRange(s, lo, hi) ==
    IF lo > hi THEN ""
    ELSE IF lo = hi THEN ToLowerChar(CharAt(s, lo))
    ELSE LET mid == (lo + hi) \div 2
         IN  ToLowerRange(s, lo, mid) \o ToLowerRange(s, mid + 1, hi)

\* s.toLowerCase(), and the letters as the flag i of a pattern compares them
ToLowerCase(s) == ToLowerRange(s, 1, Len(s))

MinOf(a, b) == IF a <= b THEN a ELSE b

Least(S) == CHOOSE x \in S : \A y \in S : x <= y

Greatest(S) == CHOOSE x \in S : \A y \in S : y <= x

\* s.substring(0, n)
Substring0(s, n) == SubSeq(s, 1, MinOf(n, Len(s)))

StartsWithAt(s, i, lit) ==
    /\ i >= 1
    /\ i + Len(lit) - 1 <= Len(s)
    /\ SubSeq(s, i, i + Len(lit) - 1) = lit

\* s.includes(lit), and a regular expression that is a literal, tested
Includes(s, lit) ==
    \E i \in 1..(Len(s) - Len(lit) + 1) : SubSeq(s, i, i + Len(lit) - 1) = lit

IncludesAny(s, lits) == \E lit \in lits : Includes(s, lit)

\* the first position in lo..hi whose character is in C (member = TRUE) or
\* is not in C (member = FALSE); hi + 1 when there is none
RECURSIVE FirstIn(_, _, _, _, _)
FirstIn(s, lo, hi, C, member) ==
    IF lo > hi THEN hi + 1
    ELSE IF lo = hi THEN (IF (CharAt(s, lo) \in C) = member THEN lo ELSE hi + 1)
    ELSE LET mid  == (lo + hi) \div 2
             left == FirstIn(s, lo, mid, C, member)
         IN  IF left <= mid THEN left ELSE FirstIn(s, mid + 1, hi, C, member)

\* the last position in lo..hi whose character is not in C; lo - 1 when none
RECURSIVE LastNotIn(_, _, _, _)
LastNotIn(s, lo, hi, C) ==
    IF lo > hi THEN lo - 1
    ELSE IF lo = hi THEN (IF CharAt(s, lo) \notin C THEN lo ELSE lo - 1)
    ELSE LET mid   == (lo + hi) \div 2
             right == LastNotIn(s, mid + 1, hi, C)
         IN  IF right > mid THEN right ELSE LastNotIn(s, lo, mid, C)

\* the first position >= i whose character is not in class C (Len(s)+1: none):
\* where a greedy C* that started at i stops
SkipClass(s, i, C) == IF i > Len(s) THEN i ELSE FirstIn(s, i, Len(s), C, FALSE)

\* the first position >= i whose character is in class C (Len(s)+1: none):
\* where a greedy [^C]* that started at i stops
FindClass(s, i, C) == IF i > Len(s) THEN i ELSE FirstIn(s, i, Len(s), C, TRUE)

\* s.trim()
Trim(s) ==
    LET a == SkipClass(s, 1, WhiteSpace)
        b == LastNotIn(s, 1, Len(s), WhiteSpace)
    IN  IF a > b THEN "" ELSE SubSeq(s, a, b)

\* s.split(/[.!?]+/): the pieces between the runs of terminators, the empty
\* pieces before a leading run and after a trailing run included
RECURSIVE SplitFrom(_, _)
SplitFrom(s, i) ==
    LET t == FindClass(s, i, Terminators)
    IN  IF t > Len(s)
        THEN << SubSeq(s, i, Len(s)) >>
        ELSE << SubSeq(s, i, t - 1) >> \o SplitFrom(s, SkipClass(s, t, Terminators))

SplitSentences(s) == SplitFrom(s, 1)

\* arr.filter(s => s.trim().length > n)
RECURSIVE FilterLonger(_, _)
FilterLonger(arr, n) ==
    IF arr = << >> THEN << >>
    ELSE (IF Len(Trim(Head(arr))) > n THEN << Head(arr) >> ELSE << >>)
         \o FilterLonger(Tail(arr), n)

\* a variant that cuts nothing
SliceAll(arr, n) == arr

\* arr.slice(0, n)
Slice0(arr, n) == SubSeq(arr, 1, MinOf(n, Len(arr)))

\* a failed match (null)
NoMatch == [found |-> FALSE, start |-> 0, end |-> 0, g1s |-> 0, g1e |-> 0]

\* a match of text positions start..end whose group 1 is g1s..g1e
Match(s, e, gs, ge) == [found |-> TRUE, start |-> s, end |-> e, g1s |-> gs, g1e |-> ge]

\* the leftmost of the matches ms, null when none of them is found: what a
\* search finds when ms holds the match attempted at each position
FirstFound(ms) ==
    IF \A m \in ms : ~ m.found THEN NoMatch
    ELSE CHOOSE m \in ms : m.found /\ \A o \in ms : o.found => m.start <= o.start

\* the match of the first alternative, or else that of the next one
OrElse(m, other) == IF m.found THEN m ELSE other

\* every match of a pattern, left to right, from position pos on, each search
\* resuming behind the match before (exec in a loop, match with the flag g)
RECURSIVE Matches(_, _)
Matches(ms, pos) ==
    LET m == FirstFound({ x \in ms : x.found /\ x.start >= pos })
    IN  IF ~ m.found THEN << >> ELSE << m >> \o Matches(ms, m.end + 1)

-----------------------------------------------------------------------------
(* The verdict rules of parseVerdictFromResult                             *)

\* the length of the first of the literals `alts` (a sequence, in the order of
\* the alternation) that stands at position i of s, 0 when none does
RECURSIVE AltLenAt(_, _, _)
AltLenAt(s, i, alts) ==
    IF alts = << >> THEN 0
    ELSE IF StartsWithAt(s, i, Head(alts)) THEN Len(Head(alts))
    ELSE AltLenAt(s, i, Tail(alts))

\* /(?:the court|this court|court)\s+(?:finds|rules|orders|concludes|determines)[^.!?]*[.!?]/i
\* tried at position i
CourtFindsAt(lower, i) ==
    LET pre  == AltLenAt(lower, i, << "the court", "this court", "court" >>)
        j    == i + pre
        k    == SkipClass(lower, j, WhiteSpace)
        verb == AltLenAt(lower, k, << "finds", "rules", "orders", "concludes", "determines" >>)
        t    == FindClass(lower, k + verb, Terminators)
    IN  IF pre > 0 /\ k > j /\ verb > 0 /\ t <= Len(lower)
        THEN Match(i, t, 0, 0)
        ELSE NoMatch

courtFindsMatch(lower) == FirstFound({ CourtFindsAt(lower, p) : p \in 1..Len(lower) })

\* the position after literal `lit` and the whitespace run behind it, when
\* `lit` stands at i and at least one whitespace character follows; else 0
AfterWordSpace(s, i, lit) ==
    LET j == i + Len(lit)
        k == SkipClass(s, j, WhiteSpace)
    IN  IF i > 0 /\ StartsWithAt(s, i, lit) /\ k > j THEN k ELSE 0

\* the position behind the alternative of (?:rule|ruling|rules|ruled) at i
\* and the whitespace that follows it (one alternative at most has any), or 0
RuleWordAt(s, i, alts) ==
    Greatest({0} \cup { AfterWordSpace(s, i, alts[n]) : n \in DOMAIN alts })

\* /(?:rule|ruling|rules|ruled)\s+in\s+favor\s+of\s+([^.!?]+)[.!?]/i at i
RuleInFavorAt(lower, i) ==
    LET a  == RuleWordAt(lower, i, << "rule", "ruling", "rules", "ruled" >>)
        b  == AfterWordSpace(lower, a, "in")
        c  == AfterWordSpace(lower, b, "favor")
        q  == c + Len("of")
        \* the greedy \s+ takes the whitespace run q..k-1 and [^.!?]+ goes on
        \* from k to the first terminator t; when the terminator stands at k
        \* itself, \s+ hands its last character back to the group, which
        \* needs one character at least
        k  == SkipClass(lower, q, WhiteSpace)
        t  == FindClass(lower, q + 1, Terminators)
    IN  IF /\ a > 0 /\ b > 0 /\ c > 0
           /\ StartsWithAt(lower, c, "of")
           /\ q <= Len(lower) /\ CharAt(lower, q) \in WhiteSpace
           /\ t <= Len(lower) /\ t >= q + 2
        THEN Match(i, t, IF t = k THEN k - 1 ELSE k, t - 1)
        ELSE NoMatch

ruleInFavorMatch(lower) == FirstFound({ RuleInFavorAt(lower, p) : p \in 1..Len(lower) })

ClaimWords == << "claim", "claims", "relief", "motion", "request" >>

GrantWords == << "granted", "denied", "partially granted", "is granted",
                 "are granted", "is denied", "are denied" >>

\* the characters a grant word starts with
GrantHeads == { CharAt(GrantWords[n], 1) : n \in DOMAIN GrantWords }

ClaimWindow == 100

\* word .{0,100} (GRANTED|...|are denied) with the alternative `word` at i:
\* the greedy .{0,100} keeps the longest gap k that lets a grant word follow
ClaimGrantedWith(lower, i, word) ==
    LET base == i + Len(word)
        maxK == MinOf(ClaimWindow, FindClass(lower, base, LineBreaks) - base)
        K    == { k \in 0..maxK : /\ base + k <= Len(lower)
                                   /\ CharAt(lower, base + k) \in GrantHeads
                                   /\ AltLenAt(lower, base + k, GrantWords) > 0 }
        k    == Greatest(K)
    IN  IF StartsWithAt(lower, i, word) /\ K # {}
        THEN Match(i, base + k + AltLenAt(lower, base + k, GrantWords) - 1,
                   i, base - 1)
        ELSE NoMatch

RECURSIVE ClaimGrantedAlts(_, _, _)
ClaimGrantedAlts(lower, i, alts) ==
    IF alts = << >> THEN NoMatch
    ELSE OrElse(ClaimGrantedWith(lower, i, Head(alts)),
                ClaimGrantedAlts(lower, i, Tail(alts)))

\* /(claim|claims|relief|motion|request).{0,100}(GRANTED|granted|DENIED|denied|
\*   PARTIALLY GRANTED|partially granted|is granted|are granted|is denied|are denied)/i
ClaimGrantedAt(lower, i) ==
    IF AltLenAt(lower, i, ClaimWords) = 0 THEN NoMatch
    ELSE ClaimGrantedAlts(lower, i, ClaimWords)

claimGrantedMatch(lower) == FirstFound({ ClaimGrantedAt(lower, p) : p \in 1..Len(lower) })

\* label [:\s]+ ([\s\S]*?) (?= stop | $) at i: the label is one of `labels`,
\* the greedy [:\s]+ takes the whole run, and the lazy group ends before the
\* first of the literals `stops`, or at the end of the text
SectionAt(lower, i, labels, stops) ==
    LET lab == AltLenAt(lower, i, labels)
        j   == i + lab
        b   == SkipClass(lower, j, ColonSpace)
        E   == { p \in b..Len(lower) : \E st \in stops : StartsWithAt(lower, p, st) }
        e   == IF E = {} THEN Len(lower) + 1 ELSE Least(E)
    IN  IF lab > 0 /\ b > j THEN Match(i, e - 1, b, e - 1) ELSE NoMatch

SectionMatch(lower, labels, stops) ==
    FirstFound({ SectionAt(lower, p, labels, stops) : p \in 1..Len(lower) })

\* /(?:FINAL DECISION|Final Decision|CONCLUSION|Conclusion)[:\s]+([\s\S]*?)(?=\n\n|$)/i
finalDecisionMatch(lower) ==
    SectionMatch(lower, << "final decision", "conclusion" >>, {"\n\n"})

\* match[0] and match[1] of a match on `text`
Group0(text, m) == IF m.found THEN SubSeq(text, m.start, m.end) ELSE ""

Group1(text, m) == IF m.found THEN SubSeq(text, m.g1s, m.g1e) ELSE ""

-----------------------------------------------------------------------------
(* Guards and dereferences of match objects                                *)

\* a variant without the null checks
TruthyAlways(m) == TRUE

\* `if (m)`, `m && ...`: a match object is truthy, null is not
Truthy(m) == m.found

\* m[0], m[1], m.slice(...) on null raise a TypeError
DerefThrows(m) == ~ m.found

\* the outcome of a piece of code: the value it computes, or the TypeError
\* it raises
Ok(v) == [ threw |-> FALSE, value |-> v ]

Thrown == [ threw |-> TRUE ]

-----------------------------------------------------------------------------
(* The verdict statement                                                   *)

\* a variant in which the verdict starts out empty
EmptyVerdict == ""

DefaultVerdict == "Judicial Recommendation Provided"

\* a variant that takes a span with "granted" as granted, whatever else it
\* holds
ClaimVerdictGrantedFirst(claimText) ==
    LET l == ToLowerCase(claimText)
        context == Trim(Substring0(claimText, ClaimWindow))
    IN  IF IncludesAny(l, {"is granted", "are granted", "granted"})
        THEN "Claims GRANTED - " \o context
        ELSE IF IncludesAny(l, {"is denied", "are denied", "denied"})
        THEN "Claims DENIED - " \o context
        ELSE DefaultVerdict

\* the branch taken on a grant/deny span: the tests are case-insensitive, so
\* /is granted|are granted|GRANTED/i is "contains granted"
ClaimVerdict(claimText) ==
    LET l == ToLowerCase(claimText)
        context == Trim(Substring0(claimText, ClaimWindow))
    IN  IF IncludesAny(l, {"is granted", "are granted", "granted"}) /\ ~ Includes(l, "denied")
        THEN "Claims GRANTED - " \o context
        ELSE IF IncludesAny(l, {"is denied", "are denied", "denied"})
        THEN "Claims DENIED - " \o context
        ELSE IF Includes(l, "partially granted")
        THEN "Claims PARTIALLY GRANTED - " \o context
        ELSE DefaultVerdict

MinDecisionLen == 20

SecondSentenceMax == 120

\* the verdict taken from the body of the Final Decision section
DecisionVerdict(decisionText) ==
    LET sentences == FilterLonger(SplitSentences(decisionText), MinDecisionLen)
    IN  IF Len(sentences) > 0
        THEN Trim(sentences[1])
             \o (IF Len(sentences) > 1 /\ Len(sentences[2]) < SecondSentenceMax
                 THEN ". " \o Trim(sentences[2]) ELSE "")
        ELSE DefaultVerdict

VerdictWords == {"court", "ruling", "decision", "granted", "denied", "favor",
                 "dismiss", "order", "conclude", "find"}

\* sentences.find(s => /court|...|find/i.test(s)): its index, 0 when none
RECURSIVE FindVerdictSentence(_, _)
FindVerdictSentence(sentences, i) ==
    IF i > Len(sentences) THEN 0
    ELSE IF IncludesAny(ToLowerCase(sentences[i]), VerdictWords) THEN i
    ELSE FindVerdictSentence(sentences, i + 1)

MinSentenceLen == 40

\* the first substantive sentence of the whole text
ScanVerdict(result) ==
    LET sentences == FilterLonger(SplitSentences(result), MinSentenceLen)
        v == FindVerdictSentence(sentences, 1)
    IN  IF Len(sentences) > 0
        THEN (IF v > 0 THEN Trim(sentences[v]) ELSE Trim(sentences[1]))
        ELSE DefaultVerdict

\* a variant that tests the Final Decision section before the grant/deny
\* pattern
VerdictRuleDecisionFirst(result, cf, rif, cg, fd) ==
    IF Truthy(cf) THEN 1
    ELSE IF Truthy(rif) THEN 2
    ELSE IF Truthy(fd) /\ Len(Trim(Group1(result, fd))) > MinDecisionLen THEN 4
    ELSE IF Truthy(cg) THEN 3
    ELSE 5

\* a variant that tests the rule-in-favor match before the court-finds match
VerdictRuleFavorFirst(result, cf, rif, cg, fd) ==
    IF Truthy(rif) THEN 2
    ELSE IF Truthy(cf) THEN 1
    ELSE IF Truthy(cg) THEN 3
    ELSE IF Truthy(fd) /\ Len(Trim(Group1(result, fd))) > MinDecisionLen THEN 4
    ELSE 5

\* which of the verdict branches (lines 228-264) is taken, given the four
\* matches: 1 court finds, 2 rule in favor, 3 grant/deny, 4 final decision,
\* 5 sentence scan
VerdictRule(result, cf, rif, cg, fd) ==
    IF Truthy(cf) THEN 1
    ELSE IF Truthy(rif) THEN 2
    ELSE IF Truthy(cg) THEN 3
    ELSE IF Truthy(fd) /\ Len(Trim(Group1(result, fd))) > MinDecisionLen THEN 4
    ELSE 5

\* the verdict of branch `rule` (lines 228-264), or Thrown when the branch
\* reads a null match
VerdictOf(result, rule, cf, rif, cg, fd) ==
    CASE rule = 1 -> IF DerefThrows(cf) THEN Thrown ELSE Ok(Trim(Group0(result, cf)))
      [] rule = 2 -> IF DerefThrows(rif) THEN Thrown ELSE Ok(Trim(Group0(result, rif)))
      [] rule = 3 -> IF DerefThrows(cg) THEN Thrown ELSE Ok(ClaimVerdict(Group0(result, cg)))
      [] rule = 4 -> IF DerefThrows(fd) THEN Thrown
                     ELSE Ok(DecisionVerdict(Trim(Group1(result, fd))))
      [] OTHER    -> Ok(ScanVerdict(result))

\* lines 228-264 with the four matches of lines 214-225
VerdictBy(result, cf, rif, cg, fd) ==
    VerdictOf(result, VerdictRule(result, cf, rif, cg, fd), cf, rif, cg, fd)

\* lines 208-264: the verdict
ExtractVerdict(result, lower) ==
    VerdictBy(result, courtFindsMatch(lower), ruleInFavorMatch(lower),
              claimGrantedMatch(lower), finalDecisionMatch(lower))

-----------------------------------------------------------------------------
(* Recommendations                                                         *)

\* /(?:COURT ORDERS|Court Orders|ORDERS|Orders)[:\s]+([\s\S]*?)(?=\n\n###|REMEDIES|Remedies|FINAL|$)/i
ordersMatch(lower) ==
    SectionMatch(lower, << "court orders", "orders" >>, {"\n\n###", "remedies", "final"})

\* /(?:REMEDIES|Remedies)[:\s]+([\s\S]*?)(?=\n\n###|FINAL|$)/i
remediesMatch(lower) ==
    SectionMatch(lower, << "remedies" >>, {"\n\n###", "final"})

\* /[-<U+2022><U+2713>\d]+\.?\s+([^\n]+)/ at i (the marker class: hyphen,
\* bullet dot, check mark, digit): the marker run, an optional period, whitespace, and the
\* rest of the line.  \s+ is greedy and hands back whitespace until a
\* character other than \n follows it.
BulletAt(s, i) ==
    LET a == SkipClass(s, i, BulletChars)
        b == IF a <= Len(s) /\ CharAt(s, a) = "." THEN a + 1 ELSE a
        c == SkipClass(s, b, WhiteSpace)
        P == { p \in (b + 1)..MinOf(c, Len(s)) : CharAt(s, p) # "\n" }
        p == Greatest(P)
    IN  IF a > i /\ c > b /\ P # {}
        THEN Match(i, FindClass(s, p, {"\n"}) - 1, p, FindClass(s, p, {"\n"}) - 1)
        ELSE NoMatch

\* text.match(/.../g) for the bullet pattern: every match, left to right
bulletMatches(sectionText) ==
    Matches({ BulletAt(sectionText, p) : p \in 1..Len(sectionText) }, 1)

\* item.replace(/^[-<U+2022><U+2713>\d]+\.?\s+/, '').trim()
CleanBullet(item) ==
    LET a == SkipClass(item, 1, BulletChars)
        b == IF a <= Len(item) /\ CharAt(item, a) = "." THEN a + 1 ELSE a
        c == SkipClass(item, b, WhiteSpace)
    IN  IF a > 1 /\ c > b THEN Trim(SubSeq(item, c, Len(item))) ELSE Trim(item)

InSeq(x, seq) == \E i \in 1..Len(seq) : seq[i] = x

MinBulletLen == 10

MaxOrders == 4

MaxRemedies == 3

RemediesBelow == 3

\* the forEach of lines 274-279 and 292-297: push the cleaned items longer
\* than 10 characters; skipDup is the `!recommendations.includes(cleaned)` of
\* the Remedies loop
RECURSIVE PushBullets(_, _, _, _)
PushBullets(recs, sectionText, items, skipDup) ==
    IF items = << >> THEN recs
    ELSE LET cleaned == CleanBullet(Group0(sectionText, Head(items)))
             keep == Len(cleaned) > MinBulletLen /\ ~ (skipDup /\ InSeq(cleaned, recs))
         IN  PushBullets(IF keep THEN Append(recs, cleaned) ELSE recs,
                         sectionText, Tail(items), skipDup)

\* recommendations after the Orders section (lines 267-281)
OrdersRecs(result, lower) ==
    LET m == ordersMatch(lower)
    IN  IF ~ Truthy(m) THEN Ok(<< >>)
        ELSE IF DerefThrows(m) THEN Thrown
        ELSE Ok(PushBullets(<< >>, Group1(result, m),
                            Slice0(bulletMatches(Group1(result, m)), MaxOrders), FALSE))

\* a variant that consults the Remedies section below five entries
RemediesRecsBelowFive(result, lower, recs) ==
    LET m == remediesMatch(lower)
    IN  IF recs.threw THEN Thrown
        ELSE IF ~ (Len(recs.value) < 5 /\ Truthy(m)) THEN recs
        ELSE Ok(PushBullets(recs.value, Group1(result, m),
                            Slice0(bulletMatches(Group1(result, m)), MaxRemedies), TRUE))

\* a variant that consults the Remedies section whatever the Orders section
\* gave
RemediesRecsAlways(result, lower, recs) ==
    LET m == remediesMatch(lower)
    IN  IF recs.threw THEN Thrown
        ELSE IF ~ Truthy(m) THEN recs
        ELSE Ok(PushBullets(recs.value, Group1(result, m),
                            Slice0(bulletMatches(Group1(result, m)), MaxRemedies), TRUE))

\* recommendations after the Remedies section (lines 284-300)
RemediesRecs(result, lower, recs) ==
    LET m == remediesMatch(lower)
    IN  IF recs.threw THEN Thrown
        ELSE IF ~ (Len(recs.value) < RemediesBelow /\ Truthy(m)) THEN recs
        ELSE IF DerefThrows(m) THEN Thrown
        ELSE Ok(PushBullets(recs.value, Group1(result, m),
                            Slice0(bulletMatches(Group1(result, m)), MaxRemedies), TRUE))

\* /(?:shall|must|should|ordered to)[^.!?]*[.!?]/gi at i
ActionAt(lower, i) ==
    LET kw == AltLenAt(lower, i, << "shall", "must", "should", "ordered to" >>)
        t  == FindClass(lower, i + kw, Terminators)
    IN  IF kw > 0 /\ t <= Len(lower) THEN Match(i, t, 0, 0) ELSE NoMatch

\* result.match(/.../gi) for the action pattern
actionMatches(lower) == Matches({ ActionAt(lower, p) : p \in 1..Len(lower) }, 1)

MaxActions == 4

MinActionLen == 15

MaxActionLen == 200

\* the forEach of lines 306-311
RECURSIVE PushActions(_, _, _)
PushActions(recs, result, items) ==
    IF items = << >> THEN recs
    ELSE LET cleaned == Trim(Group0(result, Head(items)))
             keep == Len(cleaned) > MinActionLen /\ Len(cleaned) < MaxActionLen
         IN  PushActions(IF keep THEN Append(recs, cleaned) ELSE recs, result, Tail(items))

\* recommendations after the action-clause scan (lines 303-313)
ActionRecs(result, lower, recs) ==
    IF recs.threw THEN Thrown
    ELSE IF Len(recs.value) = 0
    THEN Ok(PushActions(<< >>, result, Slice0(actionMatches(lower), MaxActions)))
    ELSE recs

DefaultRecommendations ==
    << "Review all submitted documents carefully",
       "Consider contractual obligations and evidence quality",
       "Consult with legal professionals for final decision",
       "Ensure all parties have been heard fairly" >>

\* what the three extraction stages found (lines 267-313)
ExtractedRecs(result, lower) ==
    ActionRecs(result, lower, RemediesRecs(result, lower, OrdersRecs(result, lower)))

\* a variant without the default list
WithDefaultsNone(recs) == recs

\* a variant that fills a short list up with the default list
WithDefaultsPadded(recs) ==
    IF Len(recs) < RemediesBelow THEN recs \o DefaultRecommendations ELSE recs

\* lines 316-323
WithDefaults(recs) == IF Len(recs) = 0 THEN DefaultRecommendations ELSE recs

MaxRecommendations == 6

\* recommendations.slice(0, 6) of line 341
FinalRecs(recs) == Slice0(recs, MaxRecommendations)

-----------------------------------------------------------------------------
(* Confidence                                                              *)

\* label [:\s]+ (.*?) (?:\n|$) with the alternative `label` at i: the greedy
\* [:\s]+ hands back characters until the lazy .*? reaches a \n or the end
\* of the text ('.' matches neither \n nor \r)
ConfidenceWith(lower, i, label) ==
    LET j  == i + Len(label)
        b  == SkipClass(lower, j, ColonSpace)
        B  == { p \in (j + 1)..b :
                  LET e == FindClass(lower, p, LineBreaks)
                  IN  e > Len(lower) \/ CharAt(lower, e) = "\n" }
        g  == Greatest(B)
        ge == FindClass(lower, g, LineBreaks)
    IN  IF StartsWithAt(lower, i, label) /\ B # {}
        THEN Match(i, MinOf(ge, Len(lower)), g, ge - 1)
        ELSE NoMatch

\* /(?:CONFIDENCE|Confidence|CONFIDENCE LEVEL)[:\s]+(.*?)(?:\n|$)/i at i: the
\* third alternative is tried when the rest fails behind the first
ConfidenceAt(lower, i) ==
    OrElse(ConfidenceWith(lower, i, "confidence"), ConfidenceWith(lower, i, "confidence level"))

confidenceMatch(lower) == FirstFound({ ConfidenceAt(lower, p) : p \in 1..Len(lower) })

MediumConfidence == "Medium - AI Analysis Complete"

HighConfidence == "High - Strong Evidence and Clear Legal Basis"

LowConfidence == "Low - Requires Additional Evidence or Review"

HighWords == {"strong evidence", "clear breach", "unambiguous", "definitive"}

LowWords == {"insufficient", "unclear", "requires further", "disputed facts"}

\* a variant that tests the low-confidence words before the high-confidence
\* ones
ExtractConfidenceLowFirst(result, lower) ==
    LET m == confidenceMatch(lower)
    IN  IF Truthy(m) /\ DerefThrows(m) THEN Thrown
        ELSE IF Truthy(m) /\ Trim(Group1(result, m)) # ""
        THEN Ok(Trim(Group1(result, m)))
        ELSE IF IncludesAny(lower, LowWords) THEN Ok(LowConfidence)
        ELSE IF IncludesAny(lower, HighWords) THEN Ok(HighConfidence)
        ELSE Ok(MediumConfidence)

\* lines 326-333
ExtractConfidence(result, lower) ==
    LET m == confidenceMatch(lower)
    IN  IF Truthy(m) /\ DerefThrows(m) THEN Thrown
        ELSE IF Truthy(m) /\ Trim(Group1(result, m)) # ""
        THEN Ok(Trim(Group1(result, m)))
        ELSE IF IncludesAny(lower, HighWords) THEN Ok(HighConfidence)
        ELSE IF IncludesAny(lower, LowWords) THEN Ok(LowConfidence)
        ELSE Ok(MediumConfidence)

-----------------------------------------------------------------------------
(* parseVerdictFromResult                                                  *)

AnalysisThreshold == 100

\* a variant whose gate lets a text of exactly 100 characters through
hasAnalysisInclusive(result) == Len(result) >= AnalysisThreshold

\* const hasAnalysis = result.length > 100
hasAnalysis(result) == Len(result) > AnalysisThreshold

FallbackReasoning ==
    "The AI analysis has been completed. The dispute involves complex legal issues that require detailed examination of the submitted documents. Both parties have presented their positions, and a thorough evaluation of evidence, contractual obligations, and applicable laws is needed."

FallbackRecommendations ==
    << "Conduct detailed review of all submitted evidence",
       "Verify authenticity of documents",
       "Consider mediation or settlement options",
       "Consult legal precedents for similar cases",
       "Ensure compliance with jurisdictional requirements" >>

FallbackVerdict ==
    [ threw           |-> FALSE,
      verdict         |-> "Further Review Required",
      reasoning       |-> FallbackReasoning,
      recommendations |-> FallbackRecommendations,
      confidence      |-> "Requires Human Expert Review" ]

\* a variant that trims the narrative
ReasoningTrimmed(result) == Trim(result)

\* const reasoning = result
Reasoning(result) == result

\* lines 338-343: the record of the verdict v, the recommendations r and the
\* confidence c, or Thrown when one of them was not reached
VerdictRecord(result, v, r, c) ==
    IF v.threw \/ r.threw \/ c.threw THEN Thrown
    ELSE [ threw           |-> FALSE,
           verdict         |-> v.value,
           reasoning       |-> Reasoning(result),
           recommendations |-> FinalRecs(WithDefaults(r.value)),
           confidence      |-> c.value ]

parseVerdictFromResult(result) ==
    LET lower == ToLowerCase(result)
    IN  IF ~ hasAnalysis(result) THEN FallbackVerdict
        ELSE VerdictRecord(result, ExtractVerdict(result, lower),
                           ExtractedRecs(result, lower), ExtractConfidence(result, lower))

\* parseVerdictFromResult of src/src/agents/DisputeOrchestrator.ts
parseVerdictLegacy(result) ==
    IF hasAnalysis(result)
    THEN [ threw           |-> FALSE,
           verdict         |-> "AI-Assisted Judicial Recommendation",
           reasoning       |-> result,
           recommendations |-> DefaultRecommendations,
           confidence      |-> MediumConfidence ]
    ELSE FallbackVerdict

-----------------------------------------------------------------------------
(* The document feature extractor (DisputeAnalysisMCPServer)               *)

\* a variant that tests the contract keywords first
detectDocumentTypeContractFirst(text) ==
    LET lowerText == ToLowerCase(text)
    IN  IF Includes(lowerText, "contract") \/ Includes(lowerText, "agreement")
        THEN "Contract/Agreement"
        ELSE IF Includes(lowerText, "complaint") \/ Includes(lowerText, "petition")
        THEN "Complaint/Petition"
        ELSE IF Includes(lowerText, "response") \/ Includes(lowerText, "answer")
        THEN "Response/Answer"
        ELSE IF Includes(lowerText, "evidence") \/ Includes(lowerText, "exhibit")
        THEN "Evidence/Exhibit"
        ELSE "General Legal Document"

\* lines 221-233
detectDocumentType(text) ==
    LET lowerText == ToLowerCase(text)
    IN  IF Includes(lowerText, "complaint") \/ Includes(lowerText, "petition")
        THEN "Complaint/Petition"
        ELSE IF Includes(lowerText, "response") \/ Includes(lowerText, "answer")
        THEN "Response/Answer"
        ELSE IF Includes(lowerText, "contract") \/ Includes(lowerText, "agreement")
        THEN "Contract/Agreement"
        ELSE IF Includes(lowerText, "evidence") \/ Includes(lowerText, "exhibit")
        THEN "Evidence/Exhibit"
        ELSE "General Legal Document"

Letters == CharsOf(LowerChars)

LettersDigits == Letters \cup CharsOf("0123456789")

\* [a-zA-Z\s&.,] under the flag i, on the lower-cased text
NameChars == Letters \cup WhiteSpace \cup {"&", ".", ","}

\* ([A-Z][a-zA-Z\s&.,]+?)(?:terms) with the group starting at b: the lazy
\* group ends at the first position, one character at least behind b, that
\* one of the literals `terms` follows
NameGroupAt(lower, b, terms) ==
    LET x == SkipClass(lower, b + 1, NameChars)
        E == { e \in (b + 1)..(x - 1) : AltLenAt(lower, e + 1, terms) > 0 }
        e == Least(E)
    IN  IF b <= Len(lower) /\ CharAt(lower, b) \in Letters /\ E # {}
        THEN Match(b, e + AltLenAt(lower, e + 1, terms), b, e)
        ELSE NoMatch

\* label [:\s]+ name terminator, at i (the first two patterns of line 237)
LabelledPartyAt(lower, i, labels, terms) ==
    LET lab == AltLenAt(lower, i, labels)
        j   == i + lab
        b   == SkipClass(lower, j, ColonSpace)
        g   == NameGroupAt(lower, b, terms)
    IN  IF lab > 0 /\ b > j /\ g.found
        THEN [ found |-> TRUE, start |-> i, end |-> g.end,
               groups |-> << <<g.g1s, g.g1e>> >> ]
        ELSE NoMatch

PlaintiffLabels == << "plaintiff", "claimant", "petitioner" >>

PlaintiffTerms == << "\n", "vs.", "v.", "," >>

DefendantLabels == << "defendant", "respondent" >>

PartyTerms == << "\n", "," >>

\* \s+and\s+([A-Z][a-zA-Z\s&.,]+?)(?:\n|,) behind a first name that ends at e1
SecondPartyAfter(lower, e1) ==
    LET a  == SkipClass(lower, e1 + 1, WhiteSpace)
        b2 == SkipClass(lower, a + Len("and"), WhiteSpace)
    IN  IF a > e1 + 1 /\ StartsWithAt(lower, a, "and") /\ b2 > a + Len("and")
        THEN NameGroupAt(lower, b2, PartyTerms)
        ELSE NoMatch

\* /between\s+([A-Z][a-zA-Z\s&.,]+?)\s+and\s+([A-Z][a-zA-Z\s&.,]+?)(?:\n|,)/gi
\* at i: the first lazy group grows until the rest of the pattern matches
BetweenAt(lower, i) ==
    LET j  == i + Len("between")
        b  == SkipClass(lower, j, WhiteSpace)
        x  == SkipClass(lower, b + 1, NameChars)
        E1 == { e \in (b + 1)..(x - 1) : SecondPartyAfter(lower, e).found }
        e1 == Least(E1)
        g2 == SecondPartyAfter(lower, e1)
    IN  IF /\ StartsWithAt(lower, i, "between") /\ b > j /\ b <= Len(lower)
           /\ CharAt(lower, b) \in Letters /\ E1 # {}
        THEN [ found |-> TRUE, start |-> i, end |-> g2.end,
               groups |-> << <<b, e1>>, <<g2.g1s, g2.g1e>> >> ]
        ELSE NoMatch

MinPartyLen == 2

MaxPartyLen == 100

\* the for loop of lines 246-253 over the groups of one match
RECURSIVE PushGroups(_, _, _, _)
PushGroups(parties, text, groups, n) ==
    IF n > Len(groups) THEN parties
    ELSE LET party == Trim(SubSeq(text, groups[n][1], groups[n][2]))
             keep  == party # "" /\ Len(party) > MinPartyLen /\ Len(party) < MaxPartyLen
         IN  PushGroups(IF keep THEN Append(parties, party) ELSE parties, text, groups, n + 1)

\* the while loop of lines 245-254 over the matches of one pattern
RECURSIVE PartyLoop(_, _, _)
PartyLoop(parties, text, ms) ==
    IF ms = << >> THEN parties
    ELSE PartyLoop(PushGroups(parties, text, Head(ms).groups, 1), text, Tail(ms))

\* a variant that keeps every occurrence
DedupeNone(arr, seen) == seen \o arr

\* [...new Set(arr)]: the first occurrence of each string, in order
RECURSIVE Dedupe(_, _)
Dedupe(arr, seen) ==
    IF arr = << >> THEN seen
    ELSE Dedupe(Tail(arr), IF InSeq(Head(arr), seen) THEN seen ELSE Append(seen, Head(arr)))

\* a regular expression literal is a new object at each evaluation: its
\* lastIndex is 0 when the loop over it starts
FreshLastIndex == 0

\* lines 235-258
extractParties(text) ==
    LET lower == ToLowerCase(text)
        L  == 1..Len(lower)
        m1 == Matches({ LabelledPartyAt(lower, p, PlaintiffLabels, PlaintiffTerms) : p \in L },
                      FreshLastIndex + 1)
        m2 == Matches({ LabelledPartyAt(lower, p, DefendantLabels, PartyTerms) : p \in L },
                      FreshLastIndex + 1)
        m3 == Matches({ BetweenAt(lower, p) : p \in L }, FreshLastIndex + 1)
    IN  Dedupe(PartyLoop(PartyLoop(PartyLoop(<< >>, text, m1), text, m2), text, m3), << >>)

KeyPointWords == {"breach", "violated", "damages", "compensation", "liable",
                  "obligation", "failed", "duty", "negligent", "contract"}

MinKeyPointLen == 30

MaxListLen == 10

\* a variant that keeps every sentence, whatever its length and its words
PushKeyPointsUnfiltered(points, sentences) ==
    points \o [ n \in 1..Len(sentences) |-> Trim(sentences[n]) ]

\* a variant that keeps a sentence of exactly 30 characters too
PushKeyPointsInclusive(points, sentences) ==
    points \o SelectSeq([ n \in 1..Len(sentences) |-> Trim(sentences[n]) ],
                        LAMBDA t : /\ Len(t) >= MinKeyPointLen
                                   /\ IncludesAny(ToLowerCase(t), KeyPointWords))

\* the forEach of lines 278-286
RECURSIVE PushKeyPoints(_, _)
PushKeyPoints(points, sentences) ==
    IF sentences = << >> THEN points
    ELSE LET trimmed == Trim(Head(sentences))
             keep == /\ Len(trimmed) > MinKeyPointLen
                     /\ IncludesAny(ToLowerCase(trimmed), KeyPointWords)
         IN  PushKeyPoints(IF keep THEN Append(points, trimmed) ELSE points, Tail(sentences))

\* lines 260-289
extractKeyPoints(text) == Slice0(PushKeyPoints(<< >>, SplitSentences(text)), MaxListLen)

\* label [:\s]+ ([first][^\n.]+) at i (the patterns of line 293)
EvidenceAt(lower, i, labels, first) ==
    LET lab == AltLenAt(lower, i, labels)
        j   == i + lab
        b   == SkipClass(lower, j, ColonSpace)
        x   == FindClass(lower, b + 1, {"\n", "."})
    IN  IF /\ lab > 0 /\ b > j /\ b <= Len(lower)
           /\ CharAt(lower, b) \in first /\ x > b + 1
        THEN Match(i, x - 1, b, x - 1)
        ELSE NoMatch

MaxEvidenceLen == 200

\* the while loops of lines 300-304 and 319-323 over the matches of one
\* pattern: the captures longer than `min` and shorter than `max`, trimmed
RECURSIVE PushCaptures(_, _, _, _, _)
PushCaptures(list, text, ms, min, max) ==
    IF ms = << >> THEN list
    ELSE LET g == Group1(text, Head(ms))
         IN  PushCaptures(IF g # "" /\ Len(g) > min /\ Len(g) < max
                          THEN Append(list, Trim(g)) ELSE list,
                          text, Tail(ms), min, max)

\* lines 291-308
extractEvidence(text) ==
    LET lower == ToLowerCase(text)
        L  == 1..Len(lower)
        m1 == Matches({ EvidenceAt(lower, p, << "exhibit", "evidence", "document" >>,
                                   LettersDigits) : p \in L }, FreshLastIndex + 1)
        m2 == Matches({ EvidenceAt(lower, p, << "attached", "enclosed", "herewith" >>,
                                   Letters) : p \in L }, FreshLastIndex + 1)
    IN  Slice0(Dedupe(PushCaptures(PushCaptures(<< >>, text, m1, 0, MaxEvidenceLen),
                                   text, m2, 0, MaxEvidenceLen), << >>), MaxListLen)

\* [:\s]+ ([^.!?]+[.!?]) with the run of [:\s] starting at j (or \s+ with the
\* class `run`): the run hands back its last character when a terminator
\* follows it at once
ClaimGroupAt(lower, i, j, run) ==
    LET b == SkipClass(lower, j, run)
        t == FindClass(lower, b, Terminators)
        g == IF t > b THEN b ELSE b - 1
    IN  IF b > j /\ t <= Len(lower) /\ g > j
        THEN Match(i, t, g, t)
        ELSE NoMatch

\* /(?:claim|allege|assert)[s]?[:\s]+([^.!?]+[.!?])/gi at i
ClaimAt(lower, i) ==
    LET lab == AltLenAt(lower, i, << "claim", "allege", "assert" >>)
        j   == i + lab
        j2  == IF j <= Len(lower) /\ CharAt(lower, j) = "s" THEN j + 1 ELSE j
    IN  IF lab > 0 THEN ClaimGroupAt(lower, i, j2, ColonSpace) ELSE NoMatch

\* /(?:plaintiff|claimant|defendant|respondent)\s+(?:claims|alleges|asserts)\s+([^.!?]+[.!?])/gi
PartyClaimAt(lower, i) ==
    LET lab  == AltLenAt(lower, i, << "plaintiff", "claimant", "defendant", "respondent" >>)
        j    == i + lab
        v    == SkipClass(lower, j, WhiteSpace)
        verb == AltLenAt(lower, v, << "claims", "alleges", "asserts" >>)
    IN  IF lab > 0 /\ v > j /\ verb > 0
        THEN ClaimGroupAt(lower, i, v + verb, WhiteSpace)
        ELSE NoMatch

MinClaimLen == 20

MaxClaimLen == 500

\* lines 310-327
extractClaims(text) ==
    LET lower == ToLowerCase(text)
        L  == 1..Len(lower)
        m1 == Matches({ ClaimAt(lower, p) : p \in L }, FreshLastIndex + 1)
        m2 == Matches({ PartyClaimAt(lower, p) : p \in L }, FreshLastIndex + 1)
    IN  Slice0(Dedupe(PushCaptures(PushCaptures(<< >>, text, m1, MinClaimLen, MaxClaimLen),
                                   text, m2, MinClaimLen, MaxClaimLen), << >>), MaxListLen)

\* lines 197-219: the analysis of the tool's answer
analyzeLegalDocument(text, name) ==
    [ threw        |-> FALSE,
      documentName |-> name,
      analysis     |-> [ documentType |-> detectDocumentType(text),
                         parties      |-> extractParties(text),
                         keyPoints    |-> extractKeyPoints(text),
                         evidence     |-> extractEvidence(text),
                         claims       |-> extractClaims(text) ],
      rawText      |-> text ]

-----------------------------------------------------------------------------
(* The narratives the synthesizer is called with: every concatenation of   *)
(* at most MaxFragments of the fragments below, and a few longer texts     *)

ScenarioA ==
    "The court finds that the defendant breached the agreement and orders payment of damages."

RuleInFavor == " We therefore rule in favor of the plaintiff on the first count."

\* Scenario D of the specification
CourtOrders == "\n\n### Court Orders\n- Defendant shall pay $10,000\n- Plaintiff's claim is denied\n"

DuplicateOrders == "\nOrders:\n- Return the leased equipment\n- Return the leased equipment\n"

Remedies == "\n\n### Remedies\n1. Refund the purchase price\n2. Return the leased equipment\n"

\* 100 characters in which no rule finds anything
Padding ==
    "Lorem ipsum dolor sit amet. Lorem ipsum dolor sit amet. Lorem ipsum dolor sit amet. Lorem ipsum sit."

Fragments ==
    { ScenarioA, RuleInFavor, CourtOrders, DuplicateOrders, Remedies, Padding,
      " The claim for unpaid invoices is granted by this panel today!",
      " The motion was granted in part; the request for fees is denied",
      "\n\nFinal Decision: The defendant is liable for the breach. Payment is due in thirty days.\n\n",
      " The supplier must return the deposit within ten days of notice.",
      "\nConfidence: High, supported by the record\n",
      " There is strong evidence here, yet the disputed facts remain unclear",
      " The parties exchanged several letters about the delivery schedule in spring",
      \* an Orders section and a Remedies section whose entries are marked
      \* with bullet dots and check marks
      "\nCourt Orders:\n" \o BulletDot \o " Pay the invoice in full within thirty days\n"
        \o CheckMark \o " Deliver the remaining goods\n" \o BulletDot \o " Pay now\n",
      "\n\n### Remedies\n" \o CheckMark \o " Replace the damaged goods\n"
        \o BulletDot \o CheckMark \o ". Refund the shipping costs\n-" \o BulletDot
        \o "1 Pay the invoice in full within thirty days\n",
      \* low-confidence words and no high-confidence word
      " The record is insufficient on this point and requires further briefing",
      \* a labeled line that has no value when the text ends with it
      "\nConfidence: \t\n",
      "\n" }

MaxFragments == 2

RECURSIVE Concatenations(_, _)
Concatenations(F, n) ==
    IF n = 0 THEN {""}
    ELSE Concatenations(F, n - 1)
         \cup { t \o f : t \in Concatenations(F, n - 1), f \in F }

Narratives ==
    Concatenations(Fragments, MaxFragments)
    \cup { Padding \o " The request for costs is partially granted",
           "\n\n### Court Orders\n- Defendant shall pay $10,000\n- Plaintiff's claim is denied\n- Each party bears its own costs\n"
             \o Remedies \o "3. Publish a correction notice\n",
           CourtOrders \o Remedies \o "3. Publish a correction notice\n",
           CourtOrders \o DuplicateOrders \o "- File the amended complaint\n",
           "\nOrders:\n" \o BulletDot \o " Pay the invoice in full within thirty days\n"
             \o CheckMark \o " Deliver the remaining goods\n- Each party bears its own costs\n"
             \o "\n\n### Remedies\n" \o CheckMark \o " Replace the damaged goods\n"
             \o BulletDot \o " Refund the shipping costs\n- Publish a correction notice\n",
           Padding \o " The record is insufficient on this point and requires further briefing"
             \o "\nConfidence: \t\n",
           Padding \o " This is a clear breach of the agreement." \o "\nConfidence: \t\n",
           " The parties exchanged several letters about the delivery schedule in spring"
             \o "\nConclusion: Pay it now. Pay it now. Done here.\n\n",
           \* with a form feed and a vertical tab for blanks
           "The court\ffinds that the supplier breached the contract.We rule in favor of \f the buyer. The request for costs is denied in full." }

-----------------------------------------------------------------------------
(* The document texts the extractor is called with: every concatenation of *)
(* at most MaxFragments of the fragments below, three long listings and a  *)
(* few further texts                                                       *)

ScenarioC ==
    "Plaintiff: Acme Corp. Defendant: Beta LLC. Acme alleges Beta breached the supply contract causing $50,000 in damages."

Caption == "Plaintiff: Acme Corp,\nDefendant: Beta LLC\n"

Complaint == " The COMPLAINT was filed in March."

DocFragments ==
    { ScenarioC, Caption, Complaint,
      "This agreement is made between Acme Corp and Beta LLC,\n",
      " The petition names Acme Corp as claimant.",
      " The respondent gave no answer to the second notice.",
      " Plaintiff claims that the defendant failed to deliver the goods on time!",
      " Exhibit: A1 delivery note\n",
      " Evidence: 12 photos of the damaged goods. Attached: Invoice of May\n",
      " Exhibit: A1 delivery note\n Document: A1 delivery note\n",
      " Nothing else was said at the hearing",
      "\n" }

\* twelve lot names, the first of them twice: more than ten candidates
Lots == << "L01", "L01", "L02", "L03", "L04", "L05", "L06", "L07", "L08", "L09", "L10", "L11" >>

\* a document with one passage pre-lot-post for each of the lots from n on
RECURSIVE Listing(_, _, _)
Listing(pre, post, n) ==
    IF n > Len(Lots) THEN "" ELSE pre \o Lots[n] \o post \o Listing(pre, post, n + 1)

\* the concatenations, and documents with twelve sentences with a keyword,
\* twelve exhibits and twelve allegations
Documents ==
    Concatenations(DocFragments, MaxFragments) \cup
    { Listing(" The supplier failed to deliver lot ", " in time.", 1),
      Listing(" Exhibit: ", " delivery note\n", 1),
      Listing(" Plaintiff alleges that lot ", " arrived damaged!", 1),
      " The contract was duly breached. The supplier is liable for all of it.",
      "\fPlaintiff:\fAcmeCorp\nDefendant: B\fb, Inc.\nClaim:the goods were delivered late\fand damaged.",
      "Plaintiff: Acme Holdings and Partners International Trading Company of the Northern and Southern Provinces GmbH\nDefendant: Abc\nRespondent: Ab\n",
      "Claim: the goods were late. Claim: the goods were later." }

-----------------------------------------------------------------------------
(* The calls as a state machine: one call after the other                  *)

NoResult == [ threw |-> FALSE ]

NoMemo == [ fn |-> "none" ]

synthVars == <<narrative, verdictResult, legacyResult>>

toolVars == <<documentText, documentName, toolResult>>

\* the sessions of two clients
Sessions == { "alice", "bob" }

\* the clock runs from StartTime to MaxClock
StartTime == 1

MaxClock == 2

\* at most MaxInFlight analyze requests await their analysis at a time
MaxInFlight == 2

\* no analyze request in this place
Free == [ stage |-> "free" ]

Init ==
    /\ pc = "idle"
    /\ narrative = ""
    /\ verdictResult = NoResult
    /\ legacyResult = NoResult
    /\ documentText = ""
    /\ documentName = ""
    /\ toolResult = NoResult
    /\ documentsCache = << >>
    /\ parsing = << >>
    /\ memo = NoMemo
    /\ authenticated = {}
    /\ now = StartTime
    /\ apiKey \in BOOLEAN
    /\ cases = << >>
    /\ uploading = << >>
    /\ inflight = [ k \in 1..MaxInFlight |-> Free ]
    /\ reply = [ code |-> 0 ]

\* history: a call or a tool request has run to its end behind the
\* remembered call (open: the remembered call itself has not returned yet)
Closed(m) ==
    IF m.fn = "none" THEN m
    ELSE IF m.open THEN [m EXCEPT !.open = FALSE]
    ELSE [m EXCEPT !.between = TRUE]

\* analyzeDispute line 122: the workflow resolves with the narrative `text`
WorkflowDone(text) ==
    /\ pc = "idle"
    /\ pc' = "narrated"
    /\ narrative' = text
    /\ UNCHANGED <<verdictResult, legacyResult, toolVars, documentsCache, parsing, memo>>
    /\ UNCHANGED httpVars

\* analyzeDispute line 125: parseVerdictFromResult(narrative), by either
\* version of the orchestrator
Synthesize ==
    /\ pc = "narrated"
    /\ pc' = "returned"
    /\ verdictResult' = parseVerdictFromResult(narrative)
    /\ legacyResult' = parseVerdictLegacy(narrative)
    /\ UNCHANGED <<narrative, toolVars, documentsCache, parsing, memo>>
    /\ UNCHANGED httpVars

\* analyzeDispute line 127: the verdict goes to the caller and the frame of
\* the call is gone
Return ==
    /\ pc = "returned"
    /\ pc' = "idle"
    /\ narrative' = ""
    /\ verdictResult' = NoResult
    /\ legacyResult' = NoResult
    /\ memo' = Closed(memo)
    /\ UNCHANGED <<toolVars, documentsCache, parsing>>
    /\ UNCHANGED httpVars

\* server.ts lines 115-131: a request for the tool analyze_legal_document
CallTool(text, name) ==
    /\ pc = "idle"
    /\ pc' = "called"
    /\ documentText' = text
    /\ documentName' = name
    /\ UNCHANGED <<toolResult, synthVars, documentsCache, parsing, memo>>
    /\ UNCHANGED httpVars

\* a variant that analyses the cached text of the file of that name, when
\* the cache has one
AnalyzeLegalDocumentCached ==
    /\ pc = "called"
    /\ pc' = "answered"
    /\ toolResult' = analyzeLegalDocument(
                         IF documentName \in DOMAIN documentsCache
                         THEN documentsCache[documentName] ELSE documentText,
                         documentName)
    /\ UNCHANGED <<documentText, documentName, synthVars, documentsCache, parsing, memo>>
    /\ UNCHANGED httpVars

\* server.ts lines 197-219
AnalyzeLegalDocument ==
    /\ pc = "called"
    /\ pc' = "answered"
    /\ toolResult' = analyzeLegalDocument(documentText, documentName)
    /\ UNCHANGED <<documentText, documentName, synthVars, documentsCache, parsing, memo>>
    /\ UNCHANGED httpVars

\* server.ts line 128: the answer goes to the client
Respond ==
    /\ pc = "answered"
    /\ pc' = "idle"
    /\ documentText' = ""
    /\ documentName' = ""
    /\ toolResult' = NoResult
    /\ memo' = Closed(memo)
    /\ UNCHANGED <<synthVars, documentsCache, parsing>>
    /\ UNCHANGED httpVars

\* path.extname(filePath): the last portion of the path is what stands
\* behind the last "/" that is followed by another character, without the
\* "/" at the end; its extension begins at its last "." and is empty when
\* it has no ".", when the "." is its first character, and for ".."
extname(filePath) ==
    LET E     == { i \in 1..Len(filePath) : CharAt(filePath, i) # "/" }
        end   == Greatest(E)
        S     == { i \in 1..end : CharAt(filePath, i) = "/" }
        start == IF S = {} THEN 1 ELSE Greatest(S) + 1
        D     == { i \in start..end : CharAt(filePath, i) = "." }
        dot   == Greatest(D)
    IN  IF E = {} \/ D = {} THEN ""
        ELSE IF dot = start THEN ""
        ELSE IF SubSeq(filePath, start, end) = ".." THEN ""
        ELSE SubSeq(filePath, dot, end)

\* path.extname(filePath).toLowerCase() is one of the supported extensions
Supported(filePath) == ToLowerCase(extname(filePath)) \in {".pdf", ".txt"}

\* this.documentsCache.set(filePath, text)
CacheSet(cache, filePath, text) ==
    [ p \in DOMAIN cache \cup {filePath} |-> IF p = filePath THEN text ELSE cache[p] ]

\* at most MaxParsing requests await pdfParse at a time
MaxParsing == 1

\* a sequence without its i-th element
Without(seq, i) == SubSeq(seq, 1, i - 1) \o SubSeq(seq, i + 1, Len(seq))

\* history: the cache has been written behind the remembered call
Written(m) == IF m.fn = "none" THEN m ELSE [m EXCEPT !.between = TRUE]

\* server.ts lines 124-125 and 160-176: a request for the tool
\* extract_document_text, for a file whose text is `text`.  The handler
\* runs when no other handler is in the middle of its run (a request for
\* analyze_legal_document is analysed in the run that receives it and only
\* its answer is sent later).  A .txt file is read and cached in this run;
\* a .pdf file is read and handed to pdfParse, which is awaited; any other
\* extension throws, which changes nothing
ExtractDocumentText(filePath, text) ==
    /\ pc # "called"
    /\ IF ToLowerCase(extname(filePath)) = ".pdf"
       THEN /\ Len(parsing) < MaxParsing
            /\ parsing' = Append(parsing, [ filePath |-> filePath, text |-> text ])
            /\ UNCHANGED <<documentsCache, memo>>
       ELSE IF Supported(filePath)
       THEN /\ documentsCache' = CacheSet(documentsCache, filePath, text)
            /\ memo' = Written(memo)
            /\ parsing' = parsing
       ELSE UNCHANGED <<documentsCache, memo, parsing>>
    /\ UNCHANGED <<pc, synthVars, toolVars>>
    /\ UNCHANGED httpVars

\* server.ts lines 168-176: pdfParse resolves for the i-th request that
\* awaits it, and the text goes to the cache
PdfParsed(i) ==
    /\ pc # "called"
    /\ documentsCache' = CacheSet(documentsCache, parsing[i].filePath, parsing[i].text)
    /\ parsing' = Without(parsing, i)
    /\ memo' = Written(memo)
    /\ UNCHANGED <<pc, synthVars, toolVars>>
    /\ UNCHANGED httpVars

\* server.ts lines 168 and 192-194: pdfParse rejects, and the request
\* throws 'Failed to extract document text'
PdfParseFails(i) ==
    /\ pc # "called"
    /\ parsing' = Without(parsing, i)
    /\ UNCHANGED <<pc, synthVars, toolVars, documentsCache, memo>>
    /\ UNCHANGED httpVars

\* history: keep the call that has just produced its result
Remember ==
    /\ memo = NoMemo
    /\ pc \in {"returned", "answered"}
    /\ memo' = IF pc = "returned"
               THEN [ fn |-> "synthesize", input |-> narrative, name |-> "",
                      output |-> verdictResult, open |-> TRUE, between |-> FALSE ]
               ELSE [ fn |-> "analyze", input |-> documentText, name |-> documentName,
                      output |-> toolResult, open |-> TRUE, between |-> FALSE ]
    /\ UNCHANGED <<pc, synthVars, toolVars, documentsCache, parsing>>
    /\ UNCHANGED httpVars

SynthNext ==
    \/ \E text \in Narratives : WorkflowDone(text)
    \/ Synthesize
    \/ Return

\* the synthesizer alone
SynthSpec == Init /\ [][SynthNext]_vars

AnalyzeNext ==
    \/ \E text \in Documents, name \in { "complaint.txt" } : CallTool(text, name)
    \/ AnalyzeLegalDocument
    \/ Respond

\* the extractor alone
AnalyzeSpec == Init /\ [][AnalyzeNext]_vars

Next ==
    \/ SynthNext
    \/ AnalyzeNext

\* both functions, one call after the other
Spec == Init /\ [][Next]_vars

\* a few inputs, called again and again, with the cache filled in between
FilePaths == { "complaint.txt", "reply.pdf", "notes.doc" }

HistoryNext ==
    \/ \E text \in { ScenarioA \o RuleInFavor, Padding, DuplicateOrders \o Remedies,
                       Padding \o "\nOrders:\n" \o BulletDot
                         \o " Pay the invoice in full within thirty days\n"
                         \o CheckMark \o " Deliver the remaining goods\n" } :
          WorkflowDone(text)
    \/ Synthesize
    \/ Return
    \/ \E text \in { ScenarioC, Caption \o Complaint, "" }, name \in FilePaths : CallTool(text, name)
    \/ AnalyzeLegalDocument
    \/ Respond
    \/ \E filePath \in FilePaths \cup { ".txt" }, text \in { ScenarioC, "" } :
          ExtractDocumentText(filePath, text)
    \/ \E i \in DOMAIN parsing : PdfParsed(i)
    \/ \E i \in DOMAIN parsing : PdfParseFails(i)
    \/ Remember

HistorySpec == Init /\ [][HistoryNext]_vars

-----------------------------------------------------------------------------
(* The HTTP server of src/src/server.ts.  A handler runs without           *)
(* interruption up to its next await; the analyses of several requests are *)
(* in flight at a time.  An analyze request keeps the object caseData it   *)
(* has read and writes status, verdict and completedAt of it at its end:   *)
(* these are all the fields that change after the upload, so a request     *)
(* keeps here the fields that never change (caseId, documents, createdAt). *)

\* a variant that lets every session through
ensureAuthenticatedAlways(s) == TRUE

\* req.isAuthenticated() for a request of session s
ensureAuthenticated(s) == s \in authenticated

\* a response: route, status code and error text
Reply(route, code, error) == [ route |-> route, code |-> code, error |-> error ]

\* the case data of lines 132-146, for the files that multer has stored
\* and the form fields party_0, party_1, ... of the body (`parties`, where
\* a field that is missing or empty is ""); the clock is read once for the
\* case id, once for each file (uploadedAt[n]) and once more for createdAt.
\* Of uploadedDocs the path of the stored file, which has a random part,
\* is left out
NewCase(caseId, files, parties, uploadedAt, createdAt) ==
    [ caseId    |-> caseId,
      documents |-> [ n \in 1..Len(files) |->
                        [ name       |-> files[n].originalname,
                          party      |-> IF n <= Len(parties) /\ parties[n] # ""
                                         THEN parties[n] ELSE "Unknown",
                          size       |-> files[n].size,
                          uploadedAt |-> uploadedAt[n] ] ],
      status    |-> "uploaded",
      createdAt |-> createdAt ]

\* the passport callback of /auth/google/callback has logged session s in
Login(s) ==
    /\ s \notin authenticated
    /\ authenticated' = authenticated \cup {s}
    /\ UNCHANGED <<now, apiKey, cases, inflight, reply, uploading,
                 pc, synthVars, toolVars, documentsCache, parsing, memo>>

\* GET /auth/logout
Logout(s) ==
    /\ s \in authenticated
    /\ authenticated' = authenticated \ {s}
    /\ UNCHANGED <<now, apiKey, cases, inflight, reply, uploading,
                 pc, synthVars, toolVars, documentsCache, parsing, memo>>

\* a millisecond passes
Tick ==
    /\ now < MaxClock
    /\ now' = now + 1
    /\ UNCHANGED <<authenticated, apiKey, cases, inflight, reply, uploading,
                 pc, synthVars, toolVars, documentsCache, parsing, memo>>

\* at most MaxUploading upload requests are being read at a time
MaxUploading == 1

\* POST /api/upload by session s (lines 121-123): ensureAuthenticated
\* answers 401 or hands the request to multer, which reads the body
UploadRequest(s, files, parties) ==
    /\ IF ~ ensureAuthenticated(s)
       THEN /\ reply' = Reply("upload", 401, "Unauthorized")
            /\ uploading' = uploading
       ELSE /\ Len(uploading) < MaxUploading
            /\ uploading' = Append(uploading, [ files |-> files, parties |-> parties ])
            /\ reply' = reply
    /\ UNCHANGED <<authenticated, now, apiKey, cases, inflight,
                   pc, synthVars, toolVars, documentsCache, parsing, memo>>

\* upload.array('documents', 10) with the options of lines 37-51: multer
\* takes the files in their order and stops at the first one that is the
\* eleventh, or whose extension fileFilter refuses, or that is longer than
\* limits.fileSize; "" when it stores them all
MulterError(files) ==
    LET refused == { n \in 1..Len(files) : \/ n > 10
                                           \/ ~ Supported(files[n].originalname)
                                           \/ files[n].size > 10 * 1024 * 1024 }
        n == Least(refused)
    IN  IF refused = {} THEN ""
        ELSE IF n > 10 THEN "Unexpected field"
        ELSE IF ~ Supported(files[n].originalname)
        THEN "Only PDF and TXT files are allowed"
        ELSE "File too large"

\* multer has read the body of the i-th upload request and refuses it
\* (line 124): the error goes to the error handler of express, which
\* answers 500, and the handler of the route does not run
UploadRefused(i) ==
    /\ MulterError(uploading[i].files) # ""
    /\ reply' = Reply("upload", 500, MulterError(uploading[i].files))
    /\ uploading' = Without(uploading, i)
    /\ UNCHANGED <<authenticated, now, apiKey, cases, inflight,
                   pc, synthVars, toolVars, documentsCache, parsing, memo>>

\* multer has stored the files of the i-th upload request and the handler
\* runs (lines 125-162), whether or not the session is still logged in;
\* it reads the clock at lines 132, 138 (for each file) and 145.  Nothing
\* in its try block throws, so that the catch of lines 154-160 is never
\* entered
Upload(i, uploadedAt, createdAt) ==
    LET files  == uploading[i].files
        caseId == ToString(now)
    IN  /\ MulterError(files) = ""
        /\ IF Len(files) = 0
           THEN /\ reply' = Reply("upload", 400, "No files uploaded")
                /\ UNCHANGED <<cases, now>>
           ELSE /\ DOMAIN uploadedAt = 1..Len(files)
                /\ \A n \in 1..Len(files) :
                      uploadedAt[n] >= (IF n = 1 THEN now ELSE uploadedAt[n - 1])
                /\ createdAt >= uploadedAt[Len(files)]
                /\ cases' = CacheSet(cases, caseId,
                                     NewCase(caseId, files, uploading[i].parties,
                                             uploadedAt, createdAt))
                /\ now' = createdAt
                /\ reply' = Reply("upload", 200, "")
        /\ uploading' = Without(uploading, i)
        /\ UNCHANGED <<authenticated, apiKey, inflight,
                       pc, synthVars, toolVars, documentsCache, parsing, memo>>

\* the places that hold no analyze request
FreePlaces == { k \in 1..MaxInFlight : inflight[k] = Free }

\* POST /api/analyze/:caseId by session s, up to the await of workflow.run
\* (server.ts lines 165-192; lines 98-122 of the DisputeOrchestrator that
\* server.ts imports, src/src/agents/DisputeOrchestrator.ts)
AnalyzeRequest(s, caseId) ==
    /\ IF ~ ensureAuthenticated(s)
       THEN /\ reply' = Reply("analyze", 401, "Unauthorized")
            /\ UNCHANGED <<cases, inflight>>
       ELSE IF caseId \notin DOMAIN cases
       THEN /\ reply' = Reply("analyze", 404, "Case not found")
            /\ UNCHANGED <<cases, inflight>>
       ELSE IF ~ apiKey
       THEN /\ reply' = Reply("analyze", 500, "API key not configured")
            /\ UNCHANGED <<cases, inflight>>
       ELSE /\ FreePlaces # {}
            /\ cases' = [cases EXCEPT ![caseId].status = "analyzing"]
            /\ inflight' = [inflight EXCEPT ![Least(FreePlaces)] =
                              [ stage |-> "running", caseId |-> caseId,
                                documents |-> cases[caseId].documents,
                                createdAt |-> cases[caseId].createdAt,
                                resolved |-> FALSE, verdict |-> NoResult ]]
            /\ reply' = reply
    /\ UNCHANGED <<authenticated, now, apiKey, uploading,
                 pc, synthVars, toolVars, documentsCache, parsing, memo>>

\* a variant that answers a failed workflow with the fallback verdict
WorkflowFailsWithFallback(k) ==
    /\ inflight[k].stage = "running"
    /\ inflight' = [inflight EXCEPT ![k].stage = "returned", ![k].verdict = FallbackVerdict]
    /\ UNCHANGED <<authenticated, now, apiKey, cases, reply, uploading,
                 pc, synthVars, toolVars, documentsCache, parsing, memo>>

\* src/src/agents/DisputeOrchestrator.ts lines 122-131: workflow.run
\* rejects, and analyzeDispute throws the error again
WorkflowFails(k) ==
    /\ inflight[k].stage = "running"
    /\ inflight' = [inflight EXCEPT ![k].stage = "failed"]
    /\ UNCHANGED <<authenticated, now, apiKey, cases, reply, uploading,
                 pc, synthVars, toolVars, documentsCache, parsing, memo>>

\* what the workflows resolve with
ServerNarratives == { ScenarioA \o RuleInFavor, Padding }

\* parseVerdictFromResult of each of these texts, by the class that
\* server.ts imports ('./agents/DisputeOrchestrator')
ServerVerdicts == [ text \in ServerNarratives |-> parseVerdictLegacy(text) ]

\* src/src/agents/DisputeOrchestrator.ts lines 122-127: workflow.run
\* resolves, its text (result.output || result.toString()) is parsed, and
\* analyzeDispute returns the verdict
WorkflowResolves(k, text) ==
    /\ inflight[k].stage = "running"
    /\ inflight' = [inflight EXCEPT
                      ![k].resolved = TRUE,
                      ![k].verdict = ServerVerdicts[text],
                      ![k].stage = IF ServerVerdicts[text].threw THEN "failed" ELSE "returned"]
    /\ UNCHANGED <<authenticated, now, apiKey, cases, reply, uploading,
                 pc, synthVars, toolVars, documentsCache, parsing, memo>>

\* server.ts lines 192-207: the handler goes on behind the await
Complete(k) ==
    /\ inflight[k].stage = "returned"
    /\ cases' = CacheSet(cases, inflight[k].caseId,
                         [ caseId      |-> inflight[k].caseId,
                           documents   |-> inflight[k].documents,
                           createdAt   |-> inflight[k].createdAt,
                           status      |-> "completed",
                           verdict     |-> inflight[k].verdict,
                           completedAt |-> now ])
    /\ reply' = Reply("analyze", 200, "")
    /\ inflight' = [inflight EXCEPT ![k] = Free]
    /\ UNCHANGED <<authenticated, now, apiKey, uploading,
                 pc, synthVars, toolVars, documentsCache, parsing, memo>>

\* a variant whose catch sets the status of the case back to 'uploaded'
AnswerFailureReverting(k) ==
    /\ inflight[k].stage = "failed"
    /\ reply' = Reply("analyze", 500, "Failed to analyze case")
    /\ cases' = [cases EXCEPT ![inflight[k].caseId].status = "uploaded"]
    /\ inflight' = [inflight EXCEPT ![k] = Free]
    /\ UNCHANGED <<authenticated, now, apiKey, uploading,
                 pc, synthVars, toolVars, documentsCache, parsing, memo>>

\* server.ts lines 208-214: the catch of the handler
AnswerFailure(k) ==
    /\ inflight[k].stage = "failed"
    /\ reply' = Reply("analyze", 500, "Failed to analyze case")
    /\ inflight' = [inflight EXCEPT ![k] = Free]
    /\ UNCHANGED <<authenticated, now, apiKey, cases, uploading,
                 pc, synthVars, toolVars, documentsCache, parsing, memo>>

\* what is uploaded, files and party fields: nothing; one text with the
\* name of its party; a file whose name is an extension and nothing else
UploadBodies ==
    { [ files |-> << >>, parties |-> << >> ],
      [ files |-> << [ originalname |-> "complaint.txt", size |-> 120 ] >>,
        parties |-> << "Plaintiff" >> ],
      [ files |-> << [ originalname |-> ".txt", size |-> 120 ] >>, parties |-> << >> ] }

\* the case ids requested: those an upload can have made, and another one
CaseIds == { ToString(t) : t \in StartTime..MaxClock } \cup { "0" }

ServerNext ==
    \/ \E s \in Sessions : Login(s)
    \/ \E s \in Sessions : Logout(s)
    \/ Tick
    \/ \E s \in Sessions, body \in UploadBodies : UploadRequest(s, body.files, body.parties)
    \/ \E i \in DOMAIN uploading : UploadRefused(i)
    \/ \E i \in DOMAIN uploading :
          \* the handler runs within a millisecond
          \E uploadedAt \in { [ n \in 1..Len(uploading[i].files) |-> now ] } :
              Upload(i, uploadedAt, now)
    \/ \E s \in Sessions, caseId \in CaseIds : AnalyzeRequest(s, caseId)
    \/ \E k \in 1..MaxInFlight, text \in ServerNarratives : WorkflowResolves(k, text)
    \/ \E k \in 1..MaxInFlight : WorkflowFails(k)
    \/ \E k \in 1..MaxInFlight : Complete(k)
    \/ \E k \in 1..MaxInFlight : AnswerFailure(k)

\* the HTTP server
ServerSpec == Init /\ [][ServerNext]_vars

\* the uploads alone, with more of what a body can hold: a text without
\* the name of its party, a file of another type, a file of 10 MB and a
\* byte, eleven files
UploadNext ==
    \/ \E s \in Sessions : Login(s)
    \/ \E s \in Sessions : Logout(s)
    \/ Tick
    \/ \E s \in Sessions :
          \E body \in UploadBodies \cup
                { [ files |-> << [ originalname |-> "complaint.txt", size |-> 120 ] >>,
                    parties |-> << >> ],
                  [ files |-> << [ originalname |-> "reply.pdf", size |-> 2048 ] >>,
                    parties |-> << "" >> ],
                  [ files |-> << [ originalname |-> "notes.doc", size |-> 120 ] >>,
                    parties |-> << >> ],
                  [ files |-> << [ originalname |-> "brief.pdf",
                                   size |-> 10 * 1024 * 1024 + 1 ] >>,
                    parties |-> << "Defendant" >> ],
                  [ files |-> [ n \in 1..11 |->
                                  [ originalname |-> "complaint.txt", size |-> 120 ] ],
                    parties |-> << >> ] } :
              UploadRequest(s, body.files, body.parties)
    \/ \E i \in DOMAIN uploading : UploadRefused(i)
    \/ \E i \in DOMAIN uploading, createdAt \in StartTime..MaxClock :
          \E uploadedAt \in UNION { [ 1..n -> StartTime..MaxClock ] : n \in 0..1 } :
              Upload(i, uploadedAt, createdAt)

UploadSpec == Init /\ [][UploadNext]_vars

-----------------------------------------------------------------------------
(* Properties of the synthesizer                                           *)

CanonicalFallback ==
    [ threw           |-> FALSE,
      verdict         |-> "Further Review Required",
      reasoning       |-> "The AI analysis has been completed. The dispute involves complex legal issues that require detailed examination of the submitted documents. Both parties have presented their positions, and a thorough evaluation of evidence, contractual obligations, and applicable laws is needed.",
      recommendations |-> << "Conduct detailed review of all submitted evidence",
                             "Verify authenticity of documents",
                             "Consider mediation or settlement options",
                             "Consult legal precedents for similar cases",
                             "Ensure compliance with jurisdictional requirements" >>,
      confidence      |-> "Requires Human Expert Review" ]

CanonicalDefaults ==
    << "Review all submitted documents carefully",
       "Consider contractual obligations and evidence quality",
       "Consult with legal professionals for final decision",
       "Ensure all parties have been heard fairly" >>

\* C1: for every narrative of at most 100 characters (the empty one
\* included) parseVerdictFromResult, in either version of the orchestrator,
\* returns exactly the canonical fallback record: verdict "Further Review
\* Required", the fixed reasoning, the five fixed recommendations and the
\* confidence "Requires Human Expert Review"; nothing of the input shows.
C1_FallbackGate ==
    pc = "returned" /\ Len(narrative) <= 100
        => verdictResult = CanonicalFallback /\ legacyResult = CanonicalFallback

\* a narrative of exactly 100 characters has got the fallback record
C1_Witness ==
    /\ pc = "returned"
    /\ Len(narrative) = 100
    /\ verdictResult = CanonicalFallback

\* C2, as stated: every narrative with a court-finds sentence gets that
\* sentence as its verdict, and the verdict of Scenario A begins with "The
\* court finds".
C2_Original ==
    pc = "returned" /\ courtFindsMatch(ToLowerCase(narrative)).found
        => /\ verdictResult.verdict
                = Trim(Group0(narrative, courtFindsMatch(ToLowerCase(narrative))))
           /\ narrative = ScenarioA
                => StartsWithAt(verdictResult.verdict, 1, "The court finds")

\* C2, amended: for every narrative longer than 100 characters that has a
\* court-finds sentence, the verdict is the first such sentence, trimmed,
\* also when a rule-in-favor sentence stands before or behind it; Scenario A
\* alone, 88 characters long, gets the fallback verdict.
C2_CourtFindsFirst ==
    pc = "returned" =>
        /\ Len(narrative) > 100 /\ courtFindsMatch(ToLowerCase(narrative)).found
            => /\ ~ verdictResult.threw
               /\ verdictResult.verdict
                    = Trim(Group0(narrative, courtFindsMatch(ToLowerCase(narrative))))
        /\ Len(narrative) > 100 /\ StartsWithAt(narrative, 1, ScenarioA)
            => verdictResult.verdict = ScenarioA
        /\ narrative = ScenarioA => verdictResult.verdict = "Further Review Required"

\* the rule-in-favor sentence comes first in the text, and the verdict is
\* the court-finds sentence behind it
C2_Witness ==
    /\ pc = "returned"
    /\ narrative = RuleInFavor \o ScenarioA
    /\ ruleInFavorMatch(ToLowerCase(narrative)).found
    /\ verdictResult.verdict = ScenarioA

\* C3: the verdict of every returned record is a non-empty string, whichever
\* of the rules 1-5 supplied it, the default included.
C3_VerdictNonEmpty ==
    pc = "returned" => ~ verdictResult.threw /\ Len(verdictResult.verdict) > 0

\* no rule has supplied a text (rule 5 without a long sentence), and the
\* verdict is the default one
C3_Witness ==
    /\ pc = "returned"
    /\ Len(narrative) > 100
    /\ ScanVerdict(narrative) = DefaultVerdict
    /\ verdictResult.verdict = "Judicial Recommendation Provided"

\* C4, as stated: the reasoning of every returned record is the input
\* narrative, verbatim.
C4_Original ==
    pc = "returned" => verdictResult.reasoning = narrative

\* C4, amended: for every narrative longer than 100 characters the reasoning
\* is the input narrative, verbatim (not trimmed, not cut); for a narrative
\* of at most 100 characters it is the fixed sentence of the fallback record.
C4_ReasoningVerbatim ==
    pc = "returned" =>
        /\ ~ verdictResult.threw
        /\ verdictResult.reasoning
             = IF Len(narrative) > 100 THEN narrative ELSE CanonicalFallback.reasoning

\* a long narrative that begins and ends with white space is the reasoning
C4_Witness ==
    /\ pc = "returned"
    /\ Len(narrative) > 100
    /\ CharAt(narrative, 1) \in WhiteSpace
    /\ CharAt(narrative, Len(narrative)) \in WhiteSpace
    /\ verdictResult.reasoning = narrative

\* C5: the recommendations of every returned record have at least 1 and at
\* most 6 items, whatever produced them (Orders, Remedies, action clauses,
\* the default list or the fallback record).
C5_RecommendationBounds ==
    pc = "returned" =>
        /\ ~ verdictResult.threw
        /\ Len(verdictResult.recommendations) >= 1
        /\ Len(verdictResult.recommendations) <= 6

\* an Orders section and a Remedies section whose entries are marked with
\* bullet dots and check marks have given four recommendations
C5_Witness ==
    /\ pc = "returned"
    /\ Len(narrative) > 100
    /\ ordersMatch(ToLowerCase(narrative)).found
    /\ remediesMatch(ToLowerCase(narrative)).found
    /\ SubSeq(Group1(narrative, ordersMatch(ToLowerCase(narrative))), 1, 1) = BulletDot
    /\ SubSeq(Group1(narrative, remediesMatch(ToLowerCase(narrative))), 1, 1) = CheckMark
    /\ verdictResult.recommendations
         = << "Pay the invoice in full within thirty days", "Deliver the remaining goods",
              "Replace the damaged goods", "Refund the shipping costs" >>

\* what C6 says of the extracted recommendations e and the returned record
C6_Holds(e, returned) ==
    /\ ~ e.threw /\ ~ returned.threw
    /\ e.value = << >> => returned.recommendations = CanonicalDefaults
    /\ e.value # << >> =>
          returned.recommendations = SubSeq(e.value, 1, MinOf(6, Len(e.value)))

\* C6: for a narrative longer than 100 characters the recommendations are
\* exactly the four default ones, in their order, when the Orders section,
\* the Remedies section and the action-clause scan gave nothing; when they
\* gave something, the recommendations are what they gave (the first six)
\* and no default item is added.
C6_DefaultsIffNothing ==
    pc = "returned" /\ Len(narrative) > 100 =>
        C6_Holds(ExtractedRecs(narrative, ToLowerCase(narrative)), verdictResult)

\* nothing was extracted from a long narrative: the default list is returned
C6_Witness ==
    /\ pc = "returned"
    /\ Len(narrative) > 100
    /\ ExtractedRecs(narrative, ToLowerCase(narrative)).value = << >>
    /\ verdictResult.recommendations = CanonicalDefaults

\* C7: no string occurs twice in the recommendations of a returned record.
\* The source removes duplicates in the Remedies stage only: an Orders
\* section that lists one order twice gives it twice.
C7_NoDuplicates ==
    pc = "returned" /\ ~ verdictResult.threw =>
        \A i, j \in 1..Len(verdictResult.recommendations) :
            i # j => verdictResult.recommendations[i] # verdictResult.recommendations[j]

-----------------------------------------------------------------------------
(* Properties of both functions                                            *)

\* C8: a call with the input of an earlier call returns what the earlier
\* call returned, whatever calls and cache updates lie between the two:
\* neither function reads a match position or the cache left by another call.
\* The answer of an analysis carries the text and the name of its own
\* request, whatever text the cache holds under that name.
C8_SameInputSameOutput ==
    /\ pc = "returned" /\ memo.fn = "synthesize" /\ memo.input = narrative
        => verdictResult = memo.output
    /\ pc = "answered" /\ memo.fn = "analyze"
                       /\ memo.input = documentText /\ memo.name = documentName
        => toolResult = memo.output
    /\ pc = "answered"
        => /\ ~ toolResult.threw
           /\ toolResult.rawText = documentText
           /\ toolResult.documentName = documentName

\* the second of two equal analyze requests is answered as the first was,
\* after other calls, while the cache holds another text under that name
C8_Witness ==
    /\ pc = "answered"
    /\ memo.fn = "analyze" /\ memo.between
    /\ memo.input = documentText /\ memo.name = documentName
    /\ documentName \in DOMAIN documentsCache
    /\ documentsCache[documentName] # documentText
    /\ toolResult = memo.output

IsList(x) == DOMAIN x = 1..Len(x)

DocumentTypes ==
    { "Complaint/Petition", "Response/Answer", "Contract/Agreement",
      "Evidence/Exhibit", "General Legal Document" }

\* C9: every call returns a record with all its fields and never raises:
\* parseVerdictFromResult a verdict, a reasoning, one recommendation at
\* least and a confidence; analyzeLegalDocument a document type and four
\* lists, which are empty when their patterns match nothing.
C9_NeverRaises ==
    /\ pc = "returned" =>
          /\ ~ verdictResult.threw
          /\ DOMAIN verdictResult
               = {"threw", "verdict", "reasoning", "recommendations", "confidence"}
          /\ verdictResult.verdict # ""
          /\ verdictResult.reasoning # ""
          /\ IsList(verdictResult.recommendations)
          /\ verdictResult.recommendations # << >>
          /\ verdictResult.confidence # ""
    /\ pc = "answered" =>
          /\ ~ toolResult.threw
          /\ DOMAIN toolResult = {"threw", "documentName", "analysis", "rawText"}
          /\ DOMAIN toolResult.analysis
               = {"documentType", "parties", "keyPoints", "evidence", "claims"}
          /\ toolResult.analysis.documentType \in DocumentTypes
          /\ IsList(toolResult.analysis.parties)
          /\ IsList(toolResult.analysis.keyPoints)
          /\ IsList(toolResult.analysis.evidence)
          /\ IsList(toolResult.analysis.claims)
          /\ documentText \in {"", "\n"} =>
                toolResult.analysis
                  = [ documentType |-> "General Legal Document", parties |-> << >>,
                      keyPoints |-> << >>, evidence |-> << >>, claims |-> << >> ]

\* a long narrative in which no pattern of any stage matches has got the
\* defaults of every stage
C9_Witness ==
    /\ pc = "returned"
    /\ Len(narrative) > 100
    /\ ~ courtFindsMatch(ToLowerCase(narrative)).found
    /\ ~ ruleInFavorMatch(ToLowerCase(narrative)).found
    /\ ~ claimGrantedMatch(ToLowerCase(narrative)).found
    /\ ~ finalDecisionMatch(ToLowerCase(narrative)).found
    /\ ~ ordersMatch(ToLowerCase(narrative)).found
    /\ verdictResult.recommendations = CanonicalDefaults
    /\ verdictResult.confidence = "Medium - AI Analysis Complete"

-----------------------------------------------------------------------------
(* Properties of the extractor                                             *)

\* the categories in their order, each with its two keywords
Categories ==
    << << "Complaint/Petition", {"complaint", "petition"} >>,
       << "Response/Answer", {"response", "answer"} >>,
       << "Contract/Agreement", {"contract", "agreement"} >>,
       << "Evidence/Exhibit", {"evidence", "exhibit"} >> >>

HasKeyword(text, k) == \E w \in Categories[k][2] : Includes(ToLowerCase(text), w)

\* C10: the document type is the first category, in the order Complaint/
\* Petition, Response/Answer, Contract/Agreement, Evidence/Exhibit, one of
\* whose two keywords the lower-cased text contains, and General when it
\* contains none; a text with "contract" and "complaint" is a Complaint/
\* Petition.
C10_FirstCategoryWins ==
    pc = "answered" =>
        /\ \A k \in DOMAIN Categories :
              HasKeyword(documentText, k) /\ (\A j \in 1..(k - 1) : ~ HasKeyword(documentText, j))
                 => toolResult.analysis.documentType = Categories[k][1]
        /\ (\A k \in DOMAIN Categories : ~ HasKeyword(documentText, k))
              => toolResult.analysis.documentType = "General Legal Document"
        /\ Includes(ToLowerCase(documentText), "contract")
              /\ Includes(ToLowerCase(documentText), "complaint")
              => toolResult.analysis.documentType = "Complaint/Petition"

\* a text with "contract" first and "COMPLAINT" behind it is a complaint
C10_Witness ==
    /\ pc = "answered"
    /\ documentText = ScenarioC \o Complaint
    /\ Includes(documentText, "contract")
    /\ toolResult.analysis.documentType = "Complaint/Petition"

EmptyAnalysis ==
    [ documentType |-> "General Legal Document", parties |-> << >>,
      keyPoints |-> << >>, evidence |-> << >>, claims |-> << >> ]

\* C11: the answer to a request with the empty document text is no error: it
\* holds the document name, the empty text as rawText, and an analysis of
\* type General with no party, no key point, no evidence and no claim.
C11_EmptyDocument ==
    pc = "answered" /\ documentText = "" =>
        /\ ~ toolResult.threw
        /\ toolResult.analysis = EmptyAnalysis
        /\ toolResult.rawText = ""
        /\ toolResult.documentName = documentName

\* the request with the empty text has been answered
C11_Witness ==
    /\ pc = "answered"
    /\ documentText = ""
    /\ documentName = "complaint.txt"
    /\ toolResult.analysis.documentType = "General Legal Document"
    /\ toolResult.analysis.keyPoints = << >>

NoDuplicates(list) == \A i, j \in 1..Len(list) : i # j => list[i] # list[j]

\* C12: no string occurs twice in the parties, in the evidence or in the
\* claims of an answer, also when one fragment is captured several times or
\* by several patterns.
C12_NoDuplicateEntries ==
    pc = "answered" =>
        /\ ~ toolResult.threw
        /\ NoDuplicates(toolResult.analysis.parties)
        /\ NoDuplicates(toolResult.analysis.evidence)
        /\ NoDuplicates(toolResult.analysis.claims)

\* both names are captured by a label pattern and again by the "between"
\* pattern, and each stands once in the parties
C12_Witness ==
    /\ pc = "answered"
    /\ documentText = Caption \o "This agreement is made between Acme Corp and Beta LLC,\n"
    /\ Len(PartyLoop(<< >>, documentText,
                     Matches({ BetweenAt(ToLowerCase(documentText), p)
                                 : p \in 1..Len(documentText) }, 1))) = 2
    /\ toolResult.analysis.parties = << "Acme Corp", "Beta LLC" >>

\* the passages pre-lot-post of the ten lots Lots[from] .. Lots[from + 9]
TenOf(pre, post, from) == [ n \in 1..10 |-> pre \o Lots[from + n - 1] \o post ]

\* C13: the key points, the evidence and the claims of an answer have at
\* most 10 items each.  Of twelve qualifying sentences the key points are
\* the first ten, a repeated one included; of twelve exhibits or allegations,
\* eleven of them distinct, the evidence or the claims are the first ten
\* distinct ones: duplicates are removed before the list is cut.
C13_ListCaps ==
    pc = "answered" =>
        /\ ~ toolResult.threw
        /\ Len(toolResult.analysis.keyPoints) <= 10
        /\ Len(toolResult.analysis.evidence) <= 10
        /\ Len(toolResult.analysis.claims) <= 10
        /\ documentText = Listing(" The supplier failed to deliver lot ", " in time.", 1)
              => toolResult.analysis.keyPoints
                   = TenOf("The supplier failed to deliver lot ", " in time", 1)
        /\ documentText = Listing(" Exhibit: ", " delivery note\n", 1)
              => toolResult.analysis.evidence = TenOf("", " delivery note", 2)
        /\ documentText = Listing(" Plaintiff alleges that lot ", " arrived damaged!", 1)
              => toolResult.analysis.claims = TenOf("that lot ", " arrived damaged!", 2)

\* twelve exhibits, eleven of them distinct, have given ten items of evidence
C13_Witness ==
    /\ pc = "answered"
    /\ documentText = Listing(" Exhibit: ", " delivery note\n", 1)
    /\ Len(toolResult.analysis.evidence) = 10
    /\ toolResult.analysis.evidence[10] = "L10 delivery note"

\* C14: the answer for the Scenario C text, whose party names end with a
\* sentence period, has the type Contract/Agreement, a party that holds
\* "Acme Corp", a party that holds "Beta LLC", and a claim that begins with
\* "Beta breached".  The source ends a name at a newline or a comma (or
\* "v.", "vs." behind a plaintiff) only: neither name of the text is followed
\* by one before a character that no name can hold, and parties is empty.
C14_ScenarioC ==
    pc = "answered" /\ documentText = ScenarioC =>
        /\ toolResult.analysis.documentType = "Contract/Agreement"
        /\ \E n \in 1..Len(toolResult.analysis.parties) :
              Includes(toolResult.analysis.parties[n], "Acme Corp")
        /\ \E n \in 1..Len(toolResult.analysis.parties) :
              Includes(toolResult.analysis.parties[n], "Beta LLC")
        /\ \E n \in 1..Len(toolResult.analysis.claims) :
              StartsWithAt(toolResult.analysis.claims[n], 1, "Beta breached")

-----------------------------------------------------------------------------
(* Further properties of the synthesizer                                   *)

\* C15: when the Orders section of Scenario D stands behind a fragment that
\* has no Orders section of its own, in a narrative longer than 100
\* characters, the recommendations begin with the two lines of the section,
\* without their markers and in their order.  The source takes the first
\* "orders" in any case that white space follows as the label: behind the
\* sentence of Scenario A ("... and orders payment of damages.") the section
\* it reads ends before the heading, and neither line is returned.
C15_OrdersFirst ==
    \A t \in Fragments \ {CourtOrders, DuplicateOrders} :
        pc = "returned" /\ narrative = t \o CourtOrders /\ Len(narrative) > 100 =>
            /\ ~ verdictResult.threw
            /\ Len(verdictResult.recommendations) >= 2
            /\ verdictResult.recommendations[1] = "Defendant shall pay $10,000"
            /\ verdictResult.recommendations[2] = "Plaintiff's claim is denied"

\* the verdict that the order 2, 3, 4, 5 gives when no court-finds sentence
\* matches: a rule counts as matching when its pattern matches, rule 4 when
\* the labeled section is there with a trimmed body of more than 20
\* characters, and rule 5 always
C19_Holds(result, verdict, cf, rif, cg, fd) ==
    LET body    == Trim(Group1(result, fd))
        section == fd.found /\ Len(body) > 20
    IN  ~ cf.found =>
          /\ rif.found => verdict = Trim(Group0(result, rif))
          /\ ~ rif.found /\ cg.found => verdict = ClaimVerdict(Group0(result, cg))
          /\ ~ rif.found /\ ~ cg.found /\ section => verdict = DecisionVerdict(body)
          /\ ~ rif.found /\ ~ cg.found /\ ~ section => verdict = ScanVerdict(result)

\* C19: for every narrative longer than 100 characters without a court-finds
\* sentence the verdict is the text of the first rule that matches, in the
\* order rule-in-favor sentence (2), grant/deny pattern (3), labeled Final
\* Decision/Conclusion section (4), sentence scan (5); the text of a rule is
\* used only when no rule before it matches, also when later rules match too.
C19_RulePriority ==
    pc = "returned" /\ Len(narrative) > 100
        => /\ ~ verdictResult.threw
           /\ C19_Holds(narrative, verdictResult.verdict,
                        courtFindsMatch(ToLowerCase(narrative)),
                        ruleInFavorMatch(ToLowerCase(narrative)),
                        claimGrantedMatch(ToLowerCase(narrative)),
                        finalDecisionMatch(ToLowerCase(narrative)))

\* a grant/deny span is followed by a Final Decision section with a long
\* body, rules 3, 4 and 5 match, and the verdict is the one of rule 3
C19_Witness ==
    /\ pc = "returned"
    /\ narrative = " The claim for unpaid invoices is granted by this panel today!"
                   \o "\n\nFinal Decision: The defendant is liable for the breach. Payment is due in thirty days.\n\n"
    /\ finalDecisionMatch(ToLowerCase(narrative)).found
    /\ verdictResult.verdict = "Claims GRANTED - claim for unpaid invoices is granted"

\* the prefix of the verdict of rule 3 on the span match[0] of the grant/deny
\* pattern, when rule 3 is the one that applies
C20_Holds(result, verdict, cf, rif, cg) ==
    LET span == ToLowerCase(Group0(result, cg))
    IN  ~ cf.found /\ ~ rif.found /\ cg.found =>
          /\ Includes(span, "granted") /\ Includes(span, "denied")
               => /\ StartsWithAt(verdict, 1, "Claims DENIED - ")
                  /\ ~ StartsWithAt(verdict, 1, "Claims GRANTED - ")
          /\ StartsWithAt(verdict, 1, "Claims GRANTED - ")
               => ~ Includes(span, "denied")

\* C20: when rule 3 applies and the matched grant/deny span holds both a
\* "granted" and a "denied", the verdict begins with "Claims DENIED - " and
\* not with "Claims GRANTED - "; a verdict of rule 3 that begins with "Claims
\* GRANTED - " comes from a span without "denied".
C20_DenialPrecedence ==
    pc = "returned" /\ Len(narrative) > 100
        => /\ ~ verdictResult.threw
           /\ C20_Holds(narrative, verdictResult.verdict,
                        courtFindsMatch(ToLowerCase(narrative)),
                        ruleInFavorMatch(ToLowerCase(narrative)),
                        claimGrantedMatch(ToLowerCase(narrative)))

\* the span of rule 3 runs from "motion" over "granted" to "denied", and the
\* verdict is the denied one
C20_Witness ==
    /\ pc = "returned"
    /\ narrative = Padding \o " The motion was granted in part; the request for fees is denied"
    /\ verdictResult.verdict
         = "Claims DENIED - motion was granted in part; the request for fees is denied"

\* the prefix of the verdict of rule 3 on a span that holds "partially
\* granted" and no "denied"
C21_Holds(result, verdict, cf, rif, cg) ==
    LET span == ToLowerCase(Group0(result, cg))
    IN  /\ ~ cf.found /\ ~ rif.found /\ cg.found
        /\ Includes(span, "partially granted") /\ ~ Includes(span, "denied")
        => /\ StartsWithAt(verdict, 1, "Claims PARTIALLY GRANTED - ")
           /\ ~ StartsWithAt(verdict, 1, "Claims GRANTED - ")

\* C21: when rule 3 applies and the matched span holds "partially granted"
\* and no denial word, the verdict begins with "Claims PARTIALLY GRANTED - "
\* and not with "Claims GRANTED - ".
C21_PartiallyGranted ==
    pc = "returned" /\ Len(narrative) > 100
        => /\ ~ verdictResult.threw
           /\ C21_Holds(narrative, verdictResult.verdict,
                        courtFindsMatch(ToLowerCase(narrative)),
                        ruleInFavorMatch(ToLowerCase(narrative)),
                        claimGrantedMatch(ToLowerCase(narrative)))

\* the cleaned entries of the bullet matches `items` of the section `text`
C22_Entries(text, items) ==
    [ i \in 1..Len(items) |-> CleanBullet(Group0(text, items[i])) ]

\* `recs` against the entries `orders` kept from the Orders section and the
\* cleaned first three bullets `remedies` of the Remedies section (none when
\* there is no such section)
C22_Holds(recs, orders, remedies) ==
    /\ Len(orders) >= 3 => recs = orders
    /\ Len(orders) < 3 /\ (orders # << >> \/ \E i \in DOMAIN remedies : Len(remedies[i]) > 10)
        => /\ Len(recs) >= Len(orders) /\ SubSeq(recs, 1, Len(orders)) = orders
           /\ Len(recs) - Len(orders) <= 3
           /\ \A i \in (Len(orders) + 1)..Len(recs) :
                /\ Len(recs[i]) > 10
                /\ InSeq(recs[i], remedies)
                /\ \A j \in 1..(i - 1) : recs[j] # recs[i]
           /\ \A i \in DOMAIN remedies : Len(remedies[i]) > 10 => InSeq(remedies[i], recs)

\* C22: with 3 or 4 entries from the Orders section the recommendations are
\* these entries and nothing from the Remedies section; with 0 to 2 of them,
\* at most 3 entries of the Remedies section, each longer than 10 characters,
\* follow the Orders entries, and an entry equal to one already in the list
\* is left out.
C22_RemediesWhenShort ==
    pc = "returned" /\ Len(narrative) > 100
        => /\ ~ verdictResult.threw
           /\ C22_Holds(verdictResult.recommendations,
                        OrdersRecs(narrative, ToLowerCase(narrative)).value,
                        C22_Entries(Group1(narrative, remediesMatch(ToLowerCase(narrative))),
                                    Slice0(bulletMatches(Group1(narrative,
                                               remediesMatch(ToLowerCase(narrative)))), 3)))

\* three Orders entries (marked with a bullet dot, a check mark and a
\* hyphen), a Remedies section with three more, and the recommendations
\* are the three
C22_Witness ==
    /\ pc = "returned"
    /\ remediesMatch(ToLowerCase(narrative)).found
    /\ Len(bulletMatches(Group1(narrative, remediesMatch(ToLowerCase(narrative))))) = 3
    /\ verdictResult.recommendations
         = << "Pay the invoice in full within thirty days", "Deliver the remaining goods",
              "Each party bears its own costs" >>

\* the confidence `confidence` of the text `result` against the value of the
\* labeled line matched by m, and the words of the text
C23_Holds(result, lower, confidence, m) ==
    LET value   == Trim(Group1(result, m))
        labeled == m.found /\ value # ""
        high    == IncludesAny(lower, {"strong evidence", "clear breach",
                                       "unambiguous", "definitive"})
        low     == IncludesAny(lower, {"insufficient", "unclear",
                                       "requires further", "disputed facts"})
    IN  /\ labeled => confidence = value
        /\ ~ labeled /\ high => confidence = "High - Strong Evidence and Clear Legal Basis"
        /\ ~ labeled /\ ~ high /\ low
             => confidence = "Low - Requires Additional Evidence or Review"
        /\ ~ labeled /\ ~ high /\ ~ low => confidence = "Medium - AI Analysis Complete"
        /\ confidence = "Requires Human Expert Review" => labeled

\* C23: for every narrative longer than 100 characters the confidence is the
\* value of the labeled Confidence line when that value is not empty;
\* otherwise the high-confidence label when a high-confidence word is in the
\* text, whether or not a low-confidence word is there too; otherwise the
\* low-confidence label when a low-confidence word is in the text; otherwise
\* the medium-confidence label.  "Requires Human Expert Review" is returned
\* only as the value of a labeled line.
C23_ConfidenceOrder ==
    pc = "returned" /\ Len(narrative) > 100
        => /\ ~ verdictResult.threw
           /\ C23_Holds(narrative, ToLowerCase(narrative), verdictResult.confidence,
                        confidenceMatch(ToLowerCase(narrative)))

\* a text with "insufficient" and "requires further", without a
\* high-confidence word, whose labeled line has no value, is rated low
C23_Witness ==
    /\ pc = "returned"
    /\ narrative = Padding \o " The record is insufficient on this point and requires further briefing"
                           \o "\nConfidence: \t\n"
    /\ confidenceMatch(ToLowerCase(narrative)).found
    /\ Trim(Group1(narrative, confidenceMatch(ToLowerCase(narrative)))) = ""
    /\ verdictResult.confidence = "Low - Requires Additional Evidence or Review"

\* the verdict `verdict` of a text without a match of rules 1-3 whose
\* sentence segments longer than 40 characters are `long`
C24_Holds(verdict, cf, rif, cg, long) ==
    ~ cf.found /\ ~ rif.found /\ ~ cg.found /\ long # << >>
        => verdict # "Judicial Recommendation Provided"

\* C24: for a narrative longer than 100 characters in which rules 1-3 do not
\* match and which has a sentence segment longer than 40 characters, the
\* verdict is not the default "Judicial Recommendation Provided", also when a
\* labeled Final Decision/Conclusion section without a sentence longer than
\* 20 characters is there.
C24_DefaultOnlyWithoutText ==
    pc = "returned" /\ Len(narrative) > 100
        => /\ ~ verdictResult.threw
           /\ C24_Holds(verdictResult.verdict,
                        courtFindsMatch(ToLowerCase(narrative)),
                        ruleInFavorMatch(ToLowerCase(narrative)),
                        claimGrantedMatch(ToLowerCase(narrative)),
                        FilterLonger(SplitSentences(narrative), 40))

\* the positions of the segments of `segs` that are longer than 30
\* characters when trimmed and hold one of the ten keywords
C25_Qualifying(segs) ==
    { i \in 1..Len(segs) :
        /\ Len(Trim(segs[i])) > 30
        /\ IncludesAny(ToLowerCase(Trim(segs[i])),
                       {"breach", "violated", "damages", "compensation", "liable",
                        "obligation", "failed", "duty", "negligent", "contract"}) }

\* keyPoints is the sequence of the first ten qualifying segments of `segs`,
\* trimmed, in the order of the text
C25_Holds(keyPoints, segs, Q) ==
    /\ Len(keyPoints) = (IF Cardinality(Q) > 10 THEN 10 ELSE Cardinality(Q))
    /\ \A k \in 1..Len(keyPoints) :
         \E i \in Q : /\ Cardinality({ j \in Q : j < i }) = k - 1
                      /\ keyPoints[k] = Trim(segs[i])

\* C25: the key points of an answer are, in the order of the text, the first
\* 10 trimmed segments (the text split at runs of '.', '!', '?') that are
\* longer than 30 characters and hold one of the ten keywords in any case; a
\* segment of 30 characters or fewer or without a keyword is not among them,
\* and a segment that occurs twice is kept twice.
C25_KeyPoints ==
    pc = "answered" =>
        /\ ~ toolResult.threw
        /\ C25_Holds(toolResult.analysis.keyPoints, SplitSentences(documentText),
                     C25_Qualifying(SplitSentences(documentText)))

\* a sentence of exactly 30 characters with two keywords is left out, the
\* sentence of 36 characters behind it is the only key point
C25_Witness ==
    /\ pc = "answered"
    /\ documentText = " The contract was duly breached. The supplier is liable for all of it."
    /\ Len(Trim(SplitSentences(documentText)[1])) = 30
    /\ toolResult.analysis.keyPoints = << "The supplier is liable for all of it" >>

\* the trimmed captures of the groups of the matches ms on `text`
RECURSIVE C26_Captures(_, _)
C26_Captures(text, ms) ==
    IF ms = << >> THEN {}
    ELSE { Trim(SubSeq(text, Head(ms).groups[n][1], Head(ms).groups[n][2]))
             : n \in DOMAIN Head(ms).groups }
         \cup C26_Captures(text, Tail(ms))

\* a captured fragment is among the parties if and only if its trimmed
\* length is in 3..100, and every party has such a length
C26_Holds(parties, captures) ==
    /\ \A party \in captures :
         InSeq(party, parties) <=> (Len(party) >= 3 /\ Len(party) <= 100)
    /\ \A i \in DOMAIN parties : Len(parties[i]) >= 3 /\ Len(parties[i]) <= 100

\* C26: a fragment captured by a party pattern is among the parties of the
\* answer if and only if its trimmed length is between 3 and 100 characters,
\* both included: fragments of 3 and of 100 characters are kept, fragments of
\* 2 and of 101 characters are not, and every party of the answer has a
\* length in that range.
C26_PartyLengths ==
    pc = "answered" =>
        /\ ~ toolResult.threw
        /\ C26_Holds(toolResult.analysis.parties,
                     C26_Captures(documentText,
                         Matches({ LabelledPartyAt(ToLowerCase(documentText), p,
                                                   PlaintiffLabels, PlaintiffTerms)
                                     : p \in 1..Len(documentText) }, 1)
                         \o Matches({ LabelledPartyAt(ToLowerCase(documentText), p,
                                                      DefendantLabels, PartyTerms)
                                        : p \in 1..Len(documentText) }, 1)
                         \o Matches({ BetweenAt(ToLowerCase(documentText), p)
                                        : p \in 1..Len(documentText) }, 1)))

\* the captures match[1] of the matches ms on `text`
C27_Captures(text, ms) == { Group1(text, ms[n]) : n \in DOMAIN ms }

\* a capture is among the claims (which are cut at 10 items) if and only if
\* its length is in 20..500, and every item of the evidence is shorter than
\* 200 characters
C27_Holds(claims, evidence, captures) ==
    /\ Len(claims) < 10
         => \A g \in captures :
              InSeq(Trim(g), claims) <=> (Len(g) >= 20 /\ Len(g) <= 500)
    /\ \A i \in DOMAIN evidence : Len(evidence[i]) < 200

\* C27: a capture of a claim pattern is among the claims of the answer if
\* and only if its length is between 20 and 500 characters, both included (a
\* capture of exactly 20 characters is kept, one of 19 is not), and an
\* evidence capture is kept only when it is shorter than 200 characters.
C27_ClaimLengths ==
    pc = "answered" =>
        /\ ~ toolResult.threw
        /\ C27_Holds(toolResult.analysis.claims, toolResult.analysis.evidence,
                     C27_Captures(documentText,
                         Matches({ ClaimAt(ToLowerCase(documentText), p)
                                     : p \in 1..Len(documentText) }, 1)
                         \o Matches({ PartyClaimAt(ToLowerCase(documentText), p)
                                        : p \in 1..Len(documentText) }, 1)))

\* C28: the list of recommendations before the cut of line 341 has at most 5
\* items (4 from the Orders section, or 2 from it and 3 from the Remedies
\* section, or 4 action clauses, or the 4 defaults, or the 5 items of the
\* fallback record), so the cut to 6 items removes nothing.
C28_TruncationIdle ==
    pc = "returned" =>
        /\ ~ verdictResult.threw
        /\ Len(verdictResult.recommendations) <= 5
        /\ Len(narrative) > 100
             => /\ Len(OrdersRecs(narrative, ToLowerCase(narrative)).value) <= 4
                /\ verdictResult.recommendations
                     = WithDefaults(ExtractedRecs(narrative, ToLowerCase(narrative)).value)

\* two entries of the Orders section and three of the Remedies section make
\* a list of five
C28_Witness ==
    /\ pc = "returned"
    /\ Len(narrative) > 100
    /\ verdictResult.recommendations
         = << "Defendant shall pay $10,000", "Plaintiff's claim is denied",
              "Refund the purchase price", "Return the leased equipment",
              "Publish a correction notice" >>

-----------------------------------------------------------------------------
(* Properties of the HTTP server                                           *)

\* the analyze requests in flight
Busy == { k \in 1..MaxInFlight : inflight[k] # Free }

\* a request has a verdict exactly when its workflow has resolved, and the
\* verdict is what parseVerdictFromResult returns for a text
C16_VerdictOnlyResolved ==
    \A k \in Busy :
        /\ inflight[k].stage = "running" => ~ inflight[k].resolved
        /\ inflight[k].stage = "returned" =>
              /\ inflight[k].resolved
              /\ \E text \in ServerNarratives : inflight[k].verdict = ServerVerdicts[text]
        /\ inflight[k].stage = "failed" => ~ inflight[k].resolved
        /\ ~ inflight[k].resolved => inflight[k].verdict = NoResult

\* a failed request is answered 500, and the case store stays as it is
C16_FailureAnswered ==
    \A k \in Busy :
        inflight[k].stage = "failed" /\ inflight'[k] = Free =>
            /\ reply' = Reply("analyze", 500, "Failed to analyze case")
            /\ cases' = cases

\* C16: parseVerdictFromResult is called for a request only after its
\* workflow has resolved; when the workflow fails, the error goes through
\* analyzeDispute to the handler, no verdict (fallback or other) exists for
\* the request, the answer is 500 and no case receives a verdict.
C16_NoSynthesisOnFailure ==
    [] C16_VerdictOnlyResolved /\ [][C16_FailureAnswered]_vars

\* the one analysis of a case has failed and has been answered: the case
\* has no verdict
C16_Witness ==
    /\ Busy = {}
    /\ reply = Reply("analyze", 500, "Failed to analyze case")
    /\ \E id \in DOMAIN cases :
          cases[id].status = "analyzing" /\ "verdict" \notin DOMAIN cases[id]

\* C17: a POST /api/upload or POST /api/analyze/:caseId of a session that is
\* not logged in is answered 401 and changes neither the case store nor the
\* analyses in flight, whatever requests came before; its body does not
\* reach multer either.
C17_AuthenticationRequired ==
    [][ \A s \in Sessions \ authenticated :
            \/ \E body \in UploadBodies : UploadRequest(s, body.files, body.parties)
            \/ \E caseId \in CaseIds : AnalyzeRequest(s, caseId)
            => /\ reply'.code = 401
               /\ cases' = cases
               /\ inflight' = inflight
               /\ uploading' = uploading ]_vars

\* a session was refused while the other was logged in and a case of it was
\* being analysed
C17_Witness ==
    /\ reply.code = 401
    /\ authenticated # {} /\ authenticated # Sessions
    /\ Busy # {}
    /\ \E id \in DOMAIN cases : cases[id].status = "analyzing"

\* C18: the id of the case that a successful upload creates is the id of no
\* case in the store.  The id is Date.now().toString(): an upload in the
\* millisecond of an earlier one takes its id and replaces its case.
C18_UniqueCaseIds ==
    [][ \A i \in DOMAIN uploading :
            uploading' = Without(uploading, i) /\ reply' = Reply("upload", 200, "")
            => ToString(now) \notin DOMAIN cases ]_vars

\* the analyses of the case `id` whose workflow has not yet resolved or
\* failed, in the state behind a step
C29_RunningAfter(id) ==
    { k \in 1..MaxInFlight : /\ inflight'[k] # Free
                             /\ inflight'[k].stage = "running"
                             /\ inflight'[k].caseId = id }

\* C29: while an analysis of a case is in flight the status of the case is
\* 'analyzing', whatever the interleaving of the analyze requests on it: no
\* step gives a case the status 'completed' while another analysis of that
\* case is still running.  The handler of the request that finishes first
\* writes 'completed' and its verdict without looking at the other requests.
C29_CompletedOnlyWhenIdle ==
    [][ \A id \in DOMAIN cases :
            cases'[id].status = "completed" /\ cases[id].status = "analyzing"
            => C29_RunningAfter(id) = {} ]_vars

\* the record of a case without its status
C30_Rest(case) == [ f \in DOMAIN case \ {"status"} |-> case[f] ]

\* a request that is let through sets the status 'analyzing' and leaves the
\* rest of the case and every other case as they are; a request that is
\* refused with 401, 404 or 500 leaves the case store as it is
C30_Start ==
    \A s \in Sessions, caseId \in CaseIds :
        AnalyzeRequest(s, caseId) =>
            IF inflight' # inflight
            THEN /\ cases'[caseId].status = "analyzing"
                 /\ C30_Rest(cases'[caseId]) = C30_Rest(cases[caseId])
                 /\ \A id \in DOMAIN cases \ {caseId} : cases'[id] = cases[id]
            ELSE /\ cases' = cases
                 /\ reply'.code \in {401, 404, 500}
                 /\ caseId \notin DOMAIN cases /\ ensureAuthenticated(s) => reply'.code = 404
                 /\ caseId \in DOMAIN cases /\ ensureAuthenticated(s) /\ ~ apiKey
                      => reply' = Reply("analyze", 500, "API key not configured")

\* the failure of the workflow of a request, and the answer to it, leave the
\* case store as it is; the answer is 500
C30_Failure ==
    \A k \in 1..MaxInFlight :
        /\ WorkflowFails(k) => cases' = cases
        /\ AnswerFailure(k) => /\ cases' = cases
                               /\ reply' = Reply("analyze", 500, "Failed to analyze case")

\* C30: when the analysis of an existing case fails after it was started,
\* the handler answers 500 and writes nothing: verdict and completedAt of the
\* case are what they were before the request, and the status that the
\* handler set at its start, 'analyzing', is not set back; a request that is
\* refused before (unknown case: 404, no API key: 500) leaves the case store
\* unchanged.
C30_FailureKeepsCase ==
    [][ C30_Start /\ C30_Failure ]_vars

\* a case was analysed and completed at time 1, analysed again at time 2,
\* the second analysis has failed and has been answered: the case has the
\* verdict and the completedAt of the first analysis and the status
\* 'analyzing'
C30_Witness ==
    /\ Busy = {}
    /\ reply = Reply("analyze", 500, "Failed to analyze case")
    /\ now = 2
    /\ \E id \in DOMAIN cases :
          /\ cases[id].status = "analyzing"
          /\ "verdict" \in DOMAIN cases[id]
          /\ cases[id].completedAt = 1

=============================================================================
